---- MODULE Spec2Model ----
\* Model of navbar/panes.py: the PaneNode binary tree, the PaneContainer that
\* owns the live tree of the active tab, and the per-tab TabState snapshots.
\*
\* Representation choices
\*   * A pane identifier "pane-N" is modelled by its numeric suffix N (0 is
\*     None / the empty string).
\*   * PaneNode objects are Python heap objects that are mutated in place and
\*     can be shared (a TabState keeps a reference to the tree it saved, and
\*     switch_tab makes that very object the live tree again).  The heap is
\*     the sequence `nodes`; a reference is an index into it, 0 is None.
\*     After every operation the heap is compacted: unreachable objects are
\*     dropped and the reachable ones renumbered in traversal order, which is
\*     object identity up to renaming.
\*   * size_weight is an IEEE-754 double.  A weight is kept exactly, as the
\*     integer number of 2^-55 units it equals, split into two limbs
\*     (hi * 2^28 + lo), and + and - round to nearest-even as the hardware
\*     does.
EXTENDS Integers, Sequences, FiniteSets, TLC

\* ------------------------------------------------------------------------
\* Bounds of the model
\* ------------------------------------------------------------------------
MaxCounter == 3
MaxTab == 1
MaxResizes == 1
MaxSwitches == 3
MaxRunning == 1
\* changes of tab explored together with unbounded resizing
MaxSwitchesResize == 1
\* length of the runs of consecutive resize_focused calls that are examined
MaxRun == 12
MaxSwitchesContent == 2
MaxCounterContent == 2
MaxCommands == 2
MaxRenames == 1
MaxQueue == 2
MaxTabCount == 4
MaxSwitchesApp == 2

Tabs == 0..MaxTab
\* arguments tried for pane ids: None (0), every id that can exist, and one
\* id that is never minted
IdArgs == 0..(MaxCounter + 1)
Directions == {"horizontal", "vertical"}
FocusDirections == {"left", "up", "right", "down"}
Commands == {"", "echo hi"}
Outcomes == {"hi", "(no output)", "(timeout)", "(error)"}
NewNames == {"Main Editor"}

\* ------------------------------------------------------------------------
\* IEEE-754 doubles in [0, 16), in units of 2^-55
\* ------------------------------------------------------------------------
LimbBase == 268435456

Dbl(h, l) == [hi |-> h, lo |-> l]

\* 1.0 and 0.2 (0x3FC999999999999A = 7205759403792794 * 2^-55)
DefaultWeight == Dbl(134217728, 0)
RESIZE_STEP == Dbl(26843545, 161061274)
MIN_WEIGHT == Dbl(26843545, 161061274)

\* spacing of the doubles in the binade of the exact value hi*2^28 + lo
Ulp(h) ==
    IF h < 33554432 THEN 1
    ELSE IF h < 67108864 THEN 2
    ELSE IF h < 134217728 THEN 4
    ELSE IF h < 268435456 THEN 8
    ELSE IF h < 536870912 THEN 16
    ELSE IF h < 1073741824 THEN 32
    ELSE 64

\* round-to-nearest, ties-to-even, of an exact value to a double
RoundDbl(h, l) ==
    LET g == Ulp(h)
        r == l % g
        down == l - r
        up == IF 2 * r > g THEN TRUE
              ELSE IF 2 * r < g THEN FALSE
              ELSE (down \div g) % 2 = 1
        l2 == IF up THEN down + g ELSE down
    IN  IF l2 >= LimbBase THEN Dbl(h + 1, l2 - LimbBase) ELSE Dbl(h, l2)

FAdd(a, b) ==
    LET l == a.lo + b.lo
    IN  IF l >= LimbBase THEN RoundDbl(a.hi + b.hi + 1, l - LimbBase)
        ELSE RoundDbl(a.hi + b.hi, l)

\* a - b for a >= b
FSub(a, b) ==
    LET l == a.lo - b.lo
    IN  IF l < 0 THEN RoundDbl(a.hi - b.hi - 1, l + LimbBase)
        ELSE RoundDbl(a.hi - b.hi, l)

FLess(a, b) == a.hi < b.hi \/ (a.hi = b.hi /\ a.lo < b.lo)

\* ------------------------------------------------------------------------
\* PaneNode
\* ------------------------------------------------------------------------
NoRef == 0
NoId == 0

\* a node constructed without its back-reference
PaneNode_NoParent(pid, par) ==
    [pane_id |-> pid, split |-> "none", children |-> <<>>,
     parent |-> NoRef, size_weight |-> DefaultWeight]

PaneNode(pid, par) ==
    [pane_id |-> pid, split |-> "none", children |-> <<>>,
     parent |-> par, size_weight |-> DefaultWeight]

is_leaf(h, n) == h[n].pane_id # NoId

RECURSIVE find_leaf(_, _, _)
find_leaf(h, n, pid) ==
    IF is_leaf(h, n) /\ h[n].pane_id = pid THEN n
    ELSE LET kids == h[n].children
             r1 == IF Len(kids) >= 1 THEN find_leaf(h, kids[1], pid) ELSE NoRef
         IN  IF r1 # NoRef THEN r1
             ELSE IF Len(kids) >= 2 THEN find_leaf(h, kids[2], pid)
             ELSE NoRef

RECURSIVE all_pane_ids(_, _)
all_pane_ids(h, n) ==
    IF is_leaf(h, n) THEN <<h[n].pane_id>>
    ELSE LET kids == h[n].children
         IN  IF Len(kids) = 0 THEN <<>>
             ELSE IF Len(kids) = 1 THEN all_pane_ids(h, kids[1])
             ELSE all_pane_ids(h, kids[1]) \o all_pane_ids(h, kids[2])

RECURSIVE depth(_, _)
depth(h, n) ==
    IF is_leaf(h, n) THEN 0
    ELSE LET kids == h[n].children
             d1 == IF Len(kids) >= 1 THEN depth(h, kids[1]) ELSE 0
             d2 == IF Len(kids) >= 2 THEN depth(h, kids[2]) ELSE 0
         IN  1 + (IF d1 > d2 THEN d1 ELSE d2)

SeqToSet(s) == {s[i] : i \in 1..Len(s)}

IndexOf(s, x) == CHOOSE i \in 1..Len(s) : s[i] = x /\ \A j \in 1..(i - 1) : s[j] # x

\* ------------------------------------------------------------------------
\* Heap compaction (Python object identity up to renaming, garbage dropped)
\* ------------------------------------------------------------------------
\* objects reachable from n through children and parent references, in
\* first-visit order, appended to seen
RECURSIVE Visit(_, _, _)
Visit(h, n, seen) ==
    IF n = NoRef \/ n \in SeqToSet(seen) THEN seen
    ELSE LET kids == h[n].children
             s0 == Append(seen, n)
             s1 == IF Len(kids) >= 1 THEN Visit(h, kids[1], s0) ELSE s0
             s2 == IF Len(kids) >= 2 THEN Visit(h, kids[2], s1) ELSE s1
         IN  Visit(h, h[n].parent, s2)

RECURSIVE VisitTabs(_, _, _, _)
VisitTabs(h, ts, t, seen) ==
    IF \A u \in DOMAIN ts : u < t THEN seen
    ELSE VisitTabs(h, ts, t + 1,
                   IF t \in DOMAIN ts THEN Visit(h, ts[t].tree, seen) ELSE seen)

Compact(c) ==
    LET h == c.nodes
        order == VisitTabs(h, c.tab_states, 0, Visit(h, c.tree, <<>>))
        new(n) == IF n = NoRef THEN NoRef ELSE IndexOf(order, n)
    IN  [c EXCEPT
            !.nodes = [i \in 1..Len(order) |->
                         [h[order[i]] EXCEPT
                            !.children = [k \in 1..Len(h[order[i]].children) |->
                                            new(h[order[i]].children[k])],
                            !.parent = new(h[order[i]].parent)]],
            !.tree = new(c.tree),
            !.tab_states = [t \in DOMAIN c.tab_states |->
                              [c.tab_states[t] EXCEPT !.tree = new(c.tab_states[t].tree)]]]

\* ------------------------------------------------------------------------
\* Pane widgets and messages
\* ------------------------------------------------------------------------
EmptyMap == [x \in {} |-> 0]

RunningText == "running..."

DefaultName(pid) == "Pane " \o ToString(pid)

\* Pane.__init__ as used by _create_pane, followed by the caller's
\* assignment of command_output
Pane(name, cmd, output, focusedFlag) ==
    [pane_name |-> name, command |-> cmd, command_output |-> output,
     is_focused_pane |-> focusedFlag]

\* the (name, command, output) tuple saved for a pane
SavedTuple(p) ==
    [pane_name |-> p.pane_name, command |-> p.command,
     command_output |-> p.command_output]

SavePanes(panes) == [pid \in DOMAIN panes |-> SavedTuple(panes[pid])]

PaneCountChanged(n) == [type |-> "PaneCountChanged", count |-> n, pane_id |-> NoId, pane_name |-> "", tab_index |-> 0]
FocusChanged(pid, name) == [type |-> "FocusChanged", count |-> 0, pane_id |-> pid, pane_name |-> name, tab_index |-> 0]
TabSwitched(t) == [type |-> "TabSwitched", count |-> 0, pane_id |-> NoId, pane_name |-> "", tab_index |-> t]

\* the messages of type ty among msgs
MsgsOfType(msgs, ty) == {msgs[i] : i \in {j \in 1..Len(msgs) : msgs[j].type = ty}}

\* result of an operation: the container afterwards, the value returned (ret
\* is its truth value, id the identifier when it returns one) and the
\* messages posted
Result(c, r, m) == [c |-> c, ret |-> r, id |-> NoId, msgs |-> m]

next_pane_id(c) == c.counter + 1

pane_count(c) == Len(all_pane_ids(c.nodes, c.tree))

\* _build_widget that also registers a pane for every saved tuple
build_widget_KeepSaved(h, root, saved, focused) ==
    [pid \in SeqToSet(all_pane_ids(h, root)) \cup DOMAIN saved |->
        IF pid \in DOMAIN saved
        THEN Pane(saved[pid].pane_name, saved[pid].command,
                  saved[pid].command_output, pid = focused)
        ELSE Pane(DefaultName(pid), "", "", pid = focused)]

\* _build_widget that gives every pane the default content
build_widget_Fresh(h, root, saved, focused) ==
    [pid \in SeqToSet(all_pane_ids(h, root)) |->
        Pane(DefaultName(pid), "", "", pid = focused)]

\* the registry self._panes that _build_widget leaves behind
build_widget(h, root, saved, focused) ==
    [pid \in SeqToSet(all_pane_ids(h, root)) |->
        IF pid \in DOMAIN saved
        THEN Pane(saved[pid].pane_name, saved[pid].command,
                  saved[pid].command_output, pid = focused)
        ELSE Pane(DefaultName(pid), "", "", pid = focused)]

\* the run_command coroutines rs after the Pane objects they are bound to
\* have been removed from the display: they go on, on objects that are no
\* longer registered (pane = NoId)
Detach(rs) == {[r EXCEPT !.pane = NoId] : r \in rs}

\* the number a new run_command coroutine is known by among the runs rs
NewTask(rs) ==
    CHOOSE n \in 1..(Cardinality(rs) + 1) :
        /\ n \notin {e.task : e \in rs}
        /\ \A m \in 1..(n - 1) : m \in {e.task : e \in rs}

\* the runs rs and, queued behind them, one run per pane of pids with its
\* pending command
RECURSIVE QueueRuns(_, _, _)
QueueRuns(rs, pids, pending) ==
    IF pids = {} THEN rs
    ELSE LET pid == CHOOSE p \in pids : \A q \in pids : p <= q
         IN  QueueRuns(rs \cup {[pane |-> pid, cmd |-> pending[pid],
                                  stage |-> "queued", task |-> NewTask(rs)]},
                       pids \ {pid}, pending)

\* rebuild_layout that posts the pane count it found before rebuilding
rebuild_layout_StaleCount(c) ==
    LET saved_state == SavePanes(c.panes)
        built == build_widget(c.nodes, c.tree, saved_state, c.focused)
        c2 == [c EXCEPT !.panes = built, !.running = Detach(c.running),
                        !.pending = EmptyMap]
    IN  Result(c2, TRUE, <<PaneCountChanged(Cardinality(DOMAIN c.panes))>>)

rebuild_layout(c) ==
    LET saved_state == SavePanes(c.panes)
        built == build_widget(c.nodes, c.tree, saved_state, c.focused)
        panes2 == IF c.focused \in DOMAIN built
                  THEN [built EXCEPT ![c.focused].is_focused_pane = TRUE]
                  ELSE built
        runs == QueueRuns(Detach(c.running),
                          {q \in DOMAIN c.pending :
                             q \in DOMAIN panes2 /\ c.pending[q] # ""},
                          c.pending)
        c2 == [c EXCEPT !.panes = panes2, !.running = runs, !.pending = EmptyMap]
    IN  Result(c2, TRUE, <<PaneCountChanged(pane_count(c2))>>)

\* focus_pane that draws an identifier from the counter on its way
focus_pane_Mint(c, pane_id) ==
    IF pane_id \notin DOMAIN c.panes THEN Result(c, TRUE, <<>>)
    ELSE LET old_id == c.focused
             p1 == IF old_id \in DOMAIN c.panes
                   THEN [c.panes EXCEPT ![old_id].is_focused_pane = FALSE]
                   ELSE c.panes
             p2 == [p1 EXCEPT ![pane_id].is_focused_pane = TRUE]
         IN  Result([c EXCEPT !.focused = pane_id, !.panes = p2,
                              !.counter = next_pane_id(c)], TRUE,
                    <<FocusChanged(pane_id, p2[pane_id].pane_name)>>)

\* focus_pane that forgets to clear the flag of the pane focused before
focus_pane_KeepOldFlag(c, pane_id) ==
    IF pane_id \notin DOMAIN c.panes THEN Result(c, TRUE, <<>>)
    ELSE LET p2 == [c.panes EXCEPT ![pane_id].is_focused_pane = TRUE]
         IN  Result([c EXCEPT !.focused = pane_id, !.panes = p2], TRUE,
                    <<FocusChanged(pane_id, p2[pane_id].pane_name)>>)

focus_pane(c, pane_id) ==
    IF pane_id \notin DOMAIN c.panes THEN Result(c, TRUE, <<>>)
    ELSE LET old_id == c.focused
             p1 == IF old_id \in DOMAIN c.panes
                   THEN [c.panes EXCEPT ![old_id].is_focused_pane = FALSE]
                   ELSE c.panes
             p2 == [p1 EXCEPT ![pane_id].is_focused_pane = TRUE]
         IN  Result([c EXCEPT !.focused = pane_id, !.panes = p2], TRUE,
                    <<FocusChanged(pane_id, p2[pane_id].pane_name)>>)

\* ------------------------------------------------------------------------
\* PaneContainer operations
\* ------------------------------------------------------------------------
\* first child of p that is not node n (identity comparison), NoRef if none
SiblingOf(h, p, n) ==
    LET kids == h[p].children
    IN  IF Len(kids) >= 1 /\ kids[1] # n THEN kids[1]
        ELSE IF Len(kids) >= 2 /\ kids[2] # n THEN kids[2]
        ELSE NoRef

\* _split with the children forgotten: the converted node keeps no children
SplitNode_NoChildren(node, direction, old_ref, new_ref) ==
    [node EXCEPT !.pane_id = NoId, !.split = direction, !.children = <<>>]

\* _split without clearing the identifier of the converted node
SplitNode_KeepId(node, direction, old_ref, new_ref) ==
    [node EXCEPT !.split = direction, !.children = <<old_ref, new_ref>>]

\* _split with the new pane placed before the old one
SplitNode_NewFirst(node, direction, old_ref, new_ref) ==
    [node EXCEPT !.pane_id = NoId, !.split = direction,
                 !.children = <<new_ref, old_ref>>]

\* the leaf that _split converts in place into a split node
SplitNode(node, direction, old_ref, new_ref) ==
    [node EXCEPT !.pane_id = NoId, !.split = direction,
                 !.children = <<old_ref, new_ref>>]

\* _split that files the command under the pane that was split
split_CommandToOld(c, direction, command) ==
    LET new_id == next_pane_id(c)
        c1 == [c EXCEPT !.counter = new_id]
        h == c.nodes
        focused_node == find_leaf(h, c.tree, c.focused)
    IN  IF focused_node = NoRef THEN Result(c1, FALSE, <<>>)
        ELSE
        LET old_id == h[focused_node].pane_id
            old_ref == Len(h) + 1
            new_ref == Len(h) + 2
            h1 == [h EXCEPT ![focused_node] =
                              SplitNode(h[focused_node], direction, old_ref, new_ref)]
            h2 == h1 \o <<PaneNode(old_id, focused_node), PaneNode(new_id, focused_node)>>
            c2 == [c1 EXCEPT !.nodes = h2,
                             !.pending = IF command # ""
                                         THEN [q \in DOMAIN c1.pending \cup {old_id} |->
                                                 IF q = old_id THEN command ELSE c1.pending[q]]
                                         ELSE c1.pending]
            r1 == rebuild_layout(c2)
            r2 == focus_pane(r1.c, new_id)
        IN  [c |-> r2.c, ret |-> TRUE, id |-> new_id, msgs |-> r1.msgs \o r2.msgs]

split(c, direction, command) ==
    LET new_id == next_pane_id(c)
        c1 == [c EXCEPT !.counter = new_id]
        h == c.nodes
        focused_node == find_leaf(h, c.tree, c.focused)
    IN  IF focused_node = NoRef THEN Result(c1, FALSE, <<>>)
        ELSE
        LET old_id == h[focused_node].pane_id
            old_ref == Len(h) + 1
            new_ref == Len(h) + 2
            h1 == [h EXCEPT ![focused_node] =
                              SplitNode(h[focused_node], direction, old_ref, new_ref)]
            h2 == h1 \o <<PaneNode(old_id, focused_node), PaneNode(new_id, focused_node)>>
            c2 == [c1 EXCEPT !.nodes = h2,
                             !.pending = IF command # ""
                                         THEN [q \in DOMAIN c1.pending \cup {new_id} |->
                                                 IF q = new_id THEN command ELSE c1.pending[q]]
                                         ELSE c1.pending]
            r1 == rebuild_layout(c2)
            r2 == focus_pane(r1.c, new_id)
        IN  [c |-> r2.c, ret |-> TRUE, id |-> new_id, msgs |-> r1.msgs \o r2.msgs]

\* the sibling chosen when the target is not found or has no parent: the
\* first child of the root that does not contain the target
RootSibling(h, root, target_id) ==
    LET kids == h[root].children
    IN  IF Len(kids) >= 1 /\ find_leaf(h, kids[1], target_id) = NoRef THEN kids[1]
        ELSE IF Len(kids) >= 2 /\ find_leaf(h, kids[2], target_id) = NoRef THEN kids[2]
        ELSE NoRef

\* focus after a close that always jumps to the last remaining pane
FocusAfterClose_Last(c, target_id, remaining) ==
    IF Len(remaining) > 0 THEN remaining[Len(remaining)] ELSE NoId

\* focus after a close: the first remaining pane when the target was focused
FocusAfterClose(c, target_id, remaining) ==
    IF target_id = c.focused
    THEN (IF Len(remaining) > 0 THEN remaining[1] ELSE NoId)
    ELSE c.focused

CloseFinish(c, h2, root2, target_id) ==
    LET remaining == all_pane_ids(h2, root2)
        c2 == [c EXCEPT !.nodes = h2, !.tree = root2,
                        !.focused = FocusAfterClose(c, target_id, remaining)]
        r == rebuild_layout(c2)
    IN  Result(r.c, TRUE, r.msgs)

\* a refusal of the last pane that still rebuilds the layout
RefuseLastPane_Rebuild(c) ==
    LET r == rebuild_layout(c)
    IN  Result(r.c, FALSE, r.msgs)

\* "Can't close the last pane": return False before anything is touched
RefuseLastPane(c) == Result(c, FALSE, <<>>)

close_pane(c, pane_id) ==
    LET target_id == IF pane_id # NoId THEN pane_id ELSE c.focused
        h == c.nodes
        all_ids == all_pane_ids(h, c.tree)
        target_node == find_leaf(h, c.tree, target_id)
    IN  IF Len(all_ids) <= 1 THEN RefuseLastPane(c)
        ELSE IF target_node = NoRef \/ h[target_node].parent = NoRef
        THEN IF is_leaf(h, c.tree) THEN Result(c, FALSE, <<>>)
             ELSE LET sibling == RootSibling(h, c.tree, target_id)
                  IN  IF sibling = NoRef THEN Result(c, FALSE, <<>>)
                      ELSE CloseFinish(c, [h EXCEPT ![sibling].parent = NoRef],
                                       sibling, target_id)
        ELSE LET parent == h[target_node].parent
                 sibling == SiblingOf(h, parent, target_node)
                 grandparent == h[parent].parent
             IN  IF sibling = NoRef THEN Result(c, FALSE, <<>>)
                 ELSE IF grandparent = NoRef
                 THEN CloseFinish(c, [h EXCEPT ![sibling].parent = NoRef],
                                  sibling, target_id)
                 ELSE LET idx == IndexOf(h[grandparent].children, parent)
                      IN  CloseFinish(c,
                                      [h EXCEPT ![grandparent].children[idx] = sibling,
                                                ![sibling].parent = grandparent],
                                      c.tree, target_id)

\* focus_direction that stops at the ends of the list instead of wrapping
RingIndex_Clamp(current_idx, n, direction) ==
    IF direction \in {"left", "up"}
    THEN (IF current_idx = 1 THEN 1 ELSE current_idx - 1)
    ELSE (IF current_idx = n THEN n ELSE current_idx + 1)

\* index (1-based) that focus_direction moves to in a ring of n panes
RingIndex(current_idx, n, direction) ==
    IF direction \in {"left", "up"}
    THEN ((current_idx - 1 - 1 + n) % n) + 1
    ELSE ((current_idx - 1 + 1) % n) + 1

focus_direction(c, direction) ==
    LET ids == all_pane_ids(c.nodes, c.tree)
    IN  IF Len(ids) <= 1 THEN Result(c, TRUE, <<>>)
        ELSE IF c.focused \notin SeqToSet(ids) THEN Result(c, TRUE, <<>>)
        ELSE focus_pane(c, ids[RingIndex(IndexOf(ids, c.focused), Len(ids), direction)])

\* the bound tested on the weight before the transfer instead of after it
WouldBreach_BeforeTransfer(loser, step) == FLess(loser, MIN_WEIGHT)

\* the bound not tested at all
WouldBreach_Never(loser, step) == FALSE

\* `x.size_weight - step < self.MIN_WEIGHT` for the party that loses space
WouldBreach(loser, step) ==
    FLess(loser, step) \/ FLess(FSub(loser, step), MIN_WEIGHT)

\* the bound always tested on the focused pane
Loser_Focused(grow, fw, sw) == fw

\* the weight that is tested: the sibling's when growing, the focused
\* pane's when shrinking
Loser(grow, fw, sw) == IF grow THEN sw ELSE fw

\* a refusal that still rebuilds the layout
RefuseResize_Rebuild(c) ==
    LET r == rebuild_layout(c)
    IN  Result(r.c, FALSE, r.msgs)

\* `return False` of resize_focused, before any weight is assigned
RefuseResize(c) == Result(c, FALSE, <<>>)

\* resize_focused that changes the focused node and leaves its sibling alone
resize_focused_KeepSibling(c, grow) ==
    LET h == c.nodes
        focused_node == find_leaf(h, c.tree, c.focused)
        sibling == IF focused_node = NoRef \/ h[focused_node].parent = NoRef
                   THEN NoRef
                   ELSE SiblingOf(h, h[focused_node].parent, focused_node)
    IN  IF sibling = NoRef THEN RefuseResize(c)
        ELSE
        LET fw == h[focused_node].size_weight
            sw == h[sibling].size_weight
        IN  IF WouldBreach(Loser(grow, fw, sw), RESIZE_STEP) THEN RefuseResize(c)
            ELSE
            LET h2 == [h EXCEPT ![focused_node].size_weight =
                                  IF grow THEN FAdd(fw, RESIZE_STEP)
                                  ELSE FSub(fw, RESIZE_STEP)]
                r == rebuild_layout([c EXCEPT !.nodes = h2])
            IN  Result(r.c, TRUE, r.msgs)

resize_focused(c, grow) ==
    LET h == c.nodes
        focused_node == find_leaf(h, c.tree, c.focused)
    IN  IF focused_node = NoRef \/ h[focused_node].parent = NoRef
        THEN RefuseResize(c)
        ELSE
        LET parent == h[focused_node].parent
            sibling == SiblingOf(h, parent, focused_node)
            step == RESIZE_STEP
            fw == h[focused_node].size_weight
        IN  IF Len(h[parent].children) < 2 \/ sibling = NoRef
            THEN RefuseResize(c)
            ELSE
            LET sw == h[sibling].size_weight
                loser == Loser(grow, fw, sw)
            IN  IF WouldBreach(loser, step)
                THEN RefuseResize(c)
                ELSE
                LET h2 == IF grow
                          THEN [h EXCEPT ![focused_node].size_weight = FAdd(fw, step),
                                         ![sibling].size_weight = FSub(sw, step)]
                          ELSE [h EXCEPT ![focused_node].size_weight = FSub(fw, step),
                                         ![sibling].size_weight = FAdd(sw, step)]
                    r == rebuild_layout([c EXCEPT !.nodes = h2])
                IN  Result(r.c, TRUE, r.msgs)

\* --- Tab ownership ---

\* _save_current_tab remembering the first pane instead of the focused one
TabState_FirstPane(c) ==
    [tree |-> c.tree, focused_pane_id |-> all_pane_ids(c.nodes, c.tree)[1],
     pane_counter |-> c.counter, saved_pane_data |-> SavePanes(c.panes)]

\* a TabState that saves no pane content
TabState_NoContent(c) ==
    [tree |-> c.tree, focused_pane_id |-> c.focused, pane_counter |-> c.counter,
     saved_pane_data |-> EmptyMap]

TabState(c) ==
    [tree |-> c.tree, focused_pane_id |-> c.focused, pane_counter |-> c.counter,
     saved_pane_data |-> SavePanes(c.panes)]

\* _save_current_tab that files the state under every tab visited so far
save_current_tab_All(c) ==
    [c EXCEPT !.tab_states = [t \in DOMAIN c.tab_states \cup {c.active_tab} |->
                                TabState(c)]]

save_current_tab(c) ==
    [c EXCEPT !.tab_states = [t \in DOMAIN c.tab_states \cup {c.active_tab} |->
                                IF t = c.active_tab THEN TabState(c)
                                ELSE c.tab_states[t]]]

\* a restore that starts the counter over instead of taking the saved one
RestoredCounter_Reset(c, state) == 1

\* the id counter in force after a saved tab has been restored
RestoredCounter(c, state) == state.pane_counter

switch_tab(c, tab_index) ==
    IF tab_index = c.active_tab THEN Result(c, TRUE, <<>>)
    ELSE
    LET c1 == [save_current_tab(c) EXCEPT !.active_tab = tab_index]
        c2 == IF tab_index \in DOMAIN c1.tab_states
              THEN LET state == c1.tab_states[tab_index]
                   IN  [c1 EXCEPT !.tree = state.tree,
                                  !.focused = state.focused_pane_id,
                                  !.counter = RestoredCounter(c1, state),
                                  !.running = Detach(c1.running),
                                  !.panes = build_widget(c1.nodes, state.tree,
                                                         state.saved_pane_data,
                                                         state.focused_pane_id)]
              ELSE LET new_id == next_pane_id(c1)
                   IN  [c1 EXCEPT !.counter = new_id,
                                  !.nodes = Append(c1.nodes, PaneNode(new_id, NoRef)),
                                  !.tree = Len(c1.nodes) + 1,
                                  !.focused = new_id,
                                  !.running = Detach(c1.running),
                                  !.panes = [pid \in {new_id} |->
                                               Pane(DefaultName(new_id), "", "", TRUE)]]
    IN  Result(c2, TRUE, <<PaneCountChanged(pane_count(c2)), TabSwitched(tab_index)>>)

remove_tab_state(c, tab_index) ==
    Result([c EXCEPT !.tab_states = [t \in DOMAIN c.tab_states \ {tab_index} |->
                                       c.tab_states[t]]],
           TRUE, <<>>)

\* get_tab_pane_count that answers with the live tree for every tab
get_tab_pane_count_Live(c, tab_index) == pane_count(c)

get_tab_pane_count(c, tab_index) ==
    IF tab_index = c.active_tab THEN pane_count(c)
    ELSE IF tab_index \in DOMAIN c.tab_states
    THEN Len(all_pane_ids(c.nodes, c.tab_states[tab_index].tree))
    ELSE 1

\* --- Commands ---
\* `running` holds the run_command coroutines: queued by call_later, or
\* started and awaiting the subprocess.  `pane` is the identifier under which
\* the Pane object of the coroutine is registered in _panes, NoId once a
\* rebuild has replaced that object: the coroutine then writes to an object
\* nobody displays.

\* Pane.run_command up to its first suspension
run_command_start(c, pid, cmd) ==
    [c EXCEPT !.panes[pid].command = cmd,
              !.panes[pid].command_output = RunningText]

\* Pane.run_command that returns without storing an outcome
run_command_finish_Silent(c, r, outcome) == [c EXCEPT !.running = @ \ {r}]

\* Pane.run_command after the subprocess has ended, timed out or failed
run_command_finish(c, r, outcome) ==
    IF r.pane # NoId
    THEN [c EXCEPT !.panes[r.pane].command_output = outcome, !.running = @ \ {r}]
    ELSE [c EXCEPT !.running = @ \ {r}]

\* run_command_in_pane that runs the command in the focused pane
run_command_in_pane_Focused(c, pane_id, command) ==
    IF pane_id \notin DOMAIN c.panes THEN Result(c, FALSE, <<>>)
    ELSE Result([run_command_start(c, c.focused, command) EXCEPT
                    !.running = @ \cup {[pane |-> c.focused, cmd |-> command,
                                         stage |-> "started",
                                         task |-> NewTask(c.running)]}],
                TRUE, <<>>)

run_command_in_pane(c, pane_id, command) ==
    IF pane_id \notin DOMAIN c.panes THEN Result(c, FALSE, <<>>)
    ELSE Result([run_command_start(c, pane_id, command) EXCEPT
                    !.running = @ \cup {[pane |-> pane_id, cmd |-> command,
                                         stage |-> "started",
                                         task |-> NewTask(c.running)]}],
                TRUE, <<>>)

run_command_in_focused(c, command) == run_command_in_pane(c, c.focused, command)

\* PaneContainer.rename_pane, which the application and the rename tests
\* call: give the pane a new name, False for an identifier that names no pane
rename_pane(c, pane_id, new_name) ==
    IF pane_id \notin DOMAIN c.panes THEN Result(c, FALSE, <<>>)
    ELSE Result([c EXCEPT !.panes[pane_id].pane_name = new_name], TRUE, <<>>)

\* ------------------------------------------------------------------------
\* NavbarApp: modes, keys, tabs of the sidebar and the queue of callbacks
\* ------------------------------------------------------------------------
\* An application value a has the fields current_mode, active_tab, tab_count,
\* tab_items (the pane_count of each TabButton of the TabList), queue (the
\* callbacks scheduled with call_later and the notifications of the container
\* that the application has not handled yet, oldest first), sidebar_visible,
\* status_visible and exited.
InitialTabCount == 3

Modes == {"normal", "pane", "tab", "resize", "session"}
Digits == {"0", "1", "2", "3", "4", "5", "6", "7", "8", "9"}
Keys == {"escape", "q", "p", "t", "n", "o", "b", "d", "v", "x", "h", "j", "k",
         "l", "r", "s", "+", "=", "-", "z"} \cup Digits

\* int(char)
DigitValue(char) ==
    CASE char = "0" -> 0 [] char = "1" -> 1 [] char = "2" -> 2 [] char = "3" -> 3
      [] char = "4" -> 4 [] char = "5" -> 5 [] char = "6" -> 6 [] char = "7" -> 7
      [] char = "8" -> 8 [] char = "9" -> 9

Callback(name, arg) == [cb |-> name, arg |-> arg]

call_later(a, name, arg) == [a EXCEPT !.queue = Append(@, Callback(name, arg))]

set_mode(a, mode) == [a EXCEPT !.current_mode = mode]

\* an assignment to active_tab that nobody watches
set_active_tab_Unwatched(a, new) == [a EXCEPT !.active_tab = new]

\* assignment to the reactive active_tab; watch_active_tab runs when the
\* value changes and schedules the container's switch_tab
set_active_tab(a, new) ==
    IF new = a.active_tab THEN a
    ELSE call_later([a EXCEPT !.active_tab = new], "switch_tab", new)

action_new_tab(a) ==
    [a EXCEPT !.tab_count = @ + 1, !.tab_items = Append(@, 1)]

handle_normal_key(a, char) ==
    CASE char = "q" -> [a EXCEPT !.exited = TRUE]
      [] char = "p" -> set_mode(a, "pane")
      [] char = "t" -> set_mode(a, "tab")
      [] char = "n" -> set_mode(a, "resize")
      [] char = "o" -> set_mode(a, "session")
      [] char = "b" -> [a EXCEPT !.sidebar_visible = ~@]
      [] OTHER -> a

handle_pane_key(a, char) ==
    CASE char = "d" -> set_mode(call_later(a, "split_horizontal", ""), "normal")
      [] char = "v" \/ char = "l" ->
            set_mode(call_later(a, "split_vertical", ""), "normal")
      [] char = "x" -> set_mode(call_later(a, "close_pane", ""), "normal")
      [] char = "h" -> call_later(a, "focus_direction", "left")
      [] char = "j" -> call_later(a, "focus_direction", "down")
      [] char = "k" -> call_later(a, "focus_direction", "up")
      [] char = "n" -> set_mode(call_later(a, "split_vertical", ""), "normal")
      [] OTHER -> a

\* TAB mode in which h and l wrap around
handle_tab_key_Wrap(a, char) ==
    CASE char = "n" -> set_mode(action_new_tab(a), "normal")
      [] char = "x" -> set_mode(a, "normal")
      [] char \in Digits ->
            set_mode(IF 0 <= DigitValue(char) - 1 /\ DigitValue(char) - 1 < a.tab_count
                     THEN set_active_tab(a, DigitValue(char) - 1) ELSE a,
                     "normal")
      [] char = "h" -> set_active_tab(a, (a.active_tab + a.tab_count - 1) % a.tab_count)
      [] char = "l" -> set_active_tab(a, (a.active_tab + 1) % a.tab_count)
      [] OTHER -> a

handle_tab_key(a, char) ==
    CASE char = "n" -> set_mode(action_new_tab(a), "normal")
      [] char = "x" -> set_mode(a, "normal")
      [] char \in Digits ->
            set_mode(IF 0 <= DigitValue(char) - 1 /\ DigitValue(char) - 1 < a.tab_count
                     THEN set_active_tab(a, DigitValue(char) - 1) ELSE a,
                     "normal")
      [] char = "h" -> IF a.active_tab > 0 THEN set_active_tab(a, a.active_tab - 1) ELSE a
      [] char = "l" -> IF a.active_tab < a.tab_count - 1
                       THEN set_active_tab(a, a.active_tab + 1) ELSE a
      [] OTHER -> a

handle_resize_key(a, char) ==
    CASE char \in {"+", "=", "l", "j"} -> call_later(a, "resize_focused", "grow")
      [] char \in {"-", "h", "k"} -> call_later(a, "resize_focused", "shrink")
      [] OTHER -> a

handle_session_key(a, char) ==
    CASE char = "s" -> set_mode([a EXCEPT !.status_visible = ~@], "normal")
      [] OTHER -> a

\* on_key in which Escape is just another key of the mode
on_key_NoEscape(a, key) ==
    CASE a.current_mode = "normal" -> handle_normal_key(a, key)
      [] a.current_mode = "pane" -> handle_pane_key(a, key)
      [] a.current_mode = "tab" -> handle_tab_key(a, key)
      [] a.current_mode = "resize" -> handle_resize_key(a, key)
      [] a.current_mode = "session" -> handle_session_key(a, key)

on_key(a, key) ==
    IF key = "escape" /\ a.current_mode # "normal" THEN set_mode(a, "normal")
    ELSE CASE a.current_mode = "normal" -> handle_normal_key(a, key)
           [] a.current_mode = "pane" -> handle_pane_key(a, key)
           [] a.current_mode = "tab" -> handle_tab_key(a, key)
           [] a.current_mode = "resize" -> handle_resize_key(a, key)
           [] a.current_mode = "session" -> handle_session_key(a, key)

on_tab_list_tab_clicked(a, index) == set_active_tab(a, index)

\* _update_pane_counts: the TabButton of the application's active tab gets
\* the container's live pane count
update_pane_counts(a, c) ==
    IF 0 <= a.active_tab /\ a.active_tab < Len(a.tab_items)
    THEN [a EXCEPT !.tab_items[a.active_tab + 1] = pane_count(c)]
    ELSE a

\* the PaneCountChanged notifications among msgs reach the application's
\* queue; it has no handler for TabSwitched, and its FocusChanged handler
\* only writes the activity bar
Notified(a, msgs) ==
    [a EXCEPT !.queue = @ \o [i \in 1..Cardinality(MsgsOfType(msgs, "PaneCountChanged")) |->
                                Callback("pane_count_changed", "")]]

\* the container operation a queue entry stands for
ContainerCall(c, e) ==
    CASE e.cb = "split_horizontal" -> split(c, "horizontal", "")
      [] e.cb = "split_vertical" -> split(c, "vertical", "")
      [] e.cb = "close_pane" -> close_pane(c, NoId)
      [] e.cb = "focus_direction" -> focus_direction(c, e.arg)
      [] e.cb = "resize_focused" -> resize_focused(c, e.arg = "grow")
      [] e.cb = "switch_tab" -> switch_tab(c, e.arg)
      [] OTHER -> Result(c, TRUE, <<>>)

\* the application after queue entry e, whose container call gave r, has run:
\* _do_split_* and _do_close_pane update the count after a success,
\* on_pane_container_pane_count_changed always
AfterCallback(a, e, r) ==
    LET a1 == Notified(a, r.msgs)
    IN  IF e.cb \in {"split_horizontal", "split_vertical", "close_pane"}
        THEN (IF r.ret THEN update_pane_counts(a1, r.c) ELSE a1)
        ELSE IF e.cb = "pane_count_changed" THEN update_pane_counts(a1, r.c)
        ELSE a1

\* ------------------------------------------------------------------------
\* State
\* ------------------------------------------------------------------------
VARIABLES nodes, tree, focused_pane_id, pane_counter, panes, pending_commands,
          running, active_tab, tab_states, resizes, switches,
          current_mode, app_active_tab, tab_count, tab_items, queue,
          sidebar_visible, status_visible, exited

\* the state of the NavbarApp around the PaneContainer
appvars == <<current_mode, app_active_tab, tab_count, tab_items, queue,
             sidebar_visible, status_visible, exited>>

vars == <<nodes, tree, focused_pane_id, pane_counter, panes, pending_commands,
          running, active_tab, tab_states, resizes, switches, appvars>>

\* the PaneContainer as one value
Cur ==
    [nodes |-> nodes, tree |-> tree, focused |-> focused_pane_id,
     counter |-> pane_counter, panes |-> panes, pending |-> pending_commands,
     running |-> running, active_tab |-> active_tab, tab_states |-> tab_states]

\* `resizes` counts the successful resizes and `switches` the changes of tab;
\* neither is read by the program.
\* the container after the operation op has run to completion with result r
Install(r, op) ==
    LET c == Compact(r.c)
    IN  /\ nodes' = c.nodes
        /\ tree' = c.tree
        /\ focused_pane_id' = c.focused
        /\ pane_counter' = c.counter
        /\ panes' = c.panes
        /\ pending_commands' = c.pending
        /\ running' = c.running
        /\ active_tab' = c.active_tab
        /\ tab_states' = c.tab_states
        /\ resizes' = IF op = "resize_focused" /\ r.ret THEN resizes + 1 ELSE resizes
        /\ switches' = IF op = "switch_tab" /\ c.active_tab # active_tab
                       THEN switches + 1 ELSE switches

\* the operation op was called on the container directly and ran to
\* completion with result r
Done(r, op) == Install(r, op) /\ UNCHANGED appvars

\* PaneContainer.__init__ followed by compose()
Init ==
    /\ nodes = <<PaneNode(1, NoRef)>>
    /\ tree = 1
    /\ focused_pane_id = 1
    /\ pane_counter = 1
    /\ panes = [pid \in {1} |-> Pane("Pane 1", "", "", TRUE)]
    /\ pending_commands = EmptyMap
    /\ running = {}
    /\ active_tab = 0
    /\ tab_states = [t \in {} |-> 0]
    /\ resizes = 0
    /\ switches = 0
    /\ current_mode = "normal"
    /\ app_active_tab = 0
    /\ tab_count = InitialTabCount
    /\ tab_items = [i \in 1..InitialTabCount |-> 1]
    /\ queue = <<>>
    /\ sidebar_visible = TRUE
    /\ status_visible = FALSE
    /\ exited = FALSE

\* ------------------------------------------------------------------------
\* Actions
\* ------------------------------------------------------------------------
Split(direction, command) ==
    /\ pane_counter < MaxCounter
    /\ Done(split(Cur, direction, command), "split")

ClosePane(pane_id) ==
    /\ pane_id \in IdArgs
    /\ Done(close_pane(Cur, pane_id), "close_pane")

FocusPane(pane_id) ==
    /\ pane_id \in IdArgs
    /\ Done(focus_pane(Cur, pane_id), "focus_pane")

FocusDirection(direction) ==
    /\ direction \in FocusDirections
    /\ Done(focus_direction(Cur, direction), "focus_direction")

\* resize_focused; at most MaxResizes successful resizes are explored
ResizeFocused(grow) ==
    /\ resizes < MaxResizes
    /\ Done(resize_focused(Cur, grow), "resize_focused")

\* switch_tab; at most MaxSwitches changes of tab are explored
SwitchTab(tab_index) ==
    /\ tab_index = active_tab \/ switches < MaxSwitches
    /\ tab_index \in DOMAIN tab_states \/ tab_index = active_tab
         \/ pane_counter < MaxCounter
    /\ Done(switch_tab(Cur, tab_index), "switch_tab")

RemoveTabState(tab_index) ==
    /\ tab_index \in Tabs
    /\ Done(remove_tab_state(Cur, tab_index), "remove_tab_state")

\* the panes of all tabs, as (tab, pane id, content): the live panes of the
\* active tab and the saved content of the tabs left behind
ContentCells ==
    {<<active_tab, pid, SavedTuple(panes[pid])>> : pid \in DOMAIN panes}
    \cup UNION {{<<t, pid, tab_states[t].saved_pane_data[pid]>> :
                   pid \in DOMAIN tab_states[t].saved_pane_data} :
                 t \in DOMAIN tab_states \ {active_tab}}

\* how many panes show a command, how many carry a name of their own
CommandsShown == Cardinality({x \in ContentCells : x[3].command # ""})
NamesGiven == Cardinality({x \in ContentCells : x[3].pane_name # DefaultName(x[2])})

\* run_command_in_pane; one command at a time, and at most MaxCommands
\* panes with a command are explored
RunCommandInPane(pane_id, command) ==
    /\ Cardinality(running) < MaxRunning
    /\ CommandsShown < MaxCommands
    /\ Done(run_command_in_pane(Cur, pane_id, command), "run_command_in_pane")

\* the run_command known as task, queued by rebuild_layout, starts; it
\* touches the Pane object it is bound to and nothing else
CommandStartOf(task) ==
    \E r \in running :
        /\ r.task = task
        /\ r.stage = "queued"
        /\ panes' = IF r.pane # NoId THEN run_command_start(Cur, r.pane, r.cmd).panes
                     ELSE panes
        /\ running' = (running \ {r}) \cup {[r EXCEPT !.stage = "started"]}
        /\ UNCHANGED <<nodes, tree, focused_pane_id, pane_counter, pending_commands,
                       active_tab, tab_states, resizes, switches, appvars>>

CommandStart == \E task \in 1..MaxRunning : CommandStartOf(task)

\* the subprocess of the started run_command known as task ends (or times
\* out, or fails)
CommandFinishOf(task) ==
    \E r \in running, outcome \in Outcomes :
        /\ r.task = task
        /\ r.stage = "started"
        /\ panes' = run_command_finish(Cur, r, outcome).panes
        /\ running' = run_command_finish(Cur, r, outcome).running
        /\ UNCHANGED <<nodes, tree, focused_pane_id, pane_counter, pending_commands,
                       active_tab, tab_states, resizes, switches, appvars>>

CommandFinish == \E task \in 1..MaxRunning : CommandFinishOf(task)

\* resize_focused, any number of times
ResizeFocusedFree(grow) ==
    /\ grow \in BOOLEAN
    /\ Done(resize_focused(Cur, grow), "resize_focused_free")

\* switch_tab; at most MaxSwitchesResize changes of tab are explored
SwitchTabResize(tab_index) ==
    /\ tab_index = active_tab \/ switches < MaxSwitchesResize
    /\ tab_index \in DOMAIN tab_states \/ tab_index = active_tab
         \/ pane_counter < MaxCounter
    /\ Done(switch_tab(Cur, tab_index), "switch_tab")

\* split with a command for the new pane, one command at a time; identifiers
\* up to MaxCounterContent are minted by splits
SplitCommand(direction, command) ==
    /\ pane_counter < MaxCounterContent
    /\ command = "" \/ (Cardinality(running) < MaxRunning /\ CommandsShown < MaxCommands)
    /\ Done(split(Cur, direction, command), "split")

\* switch_tab; at most MaxSwitchesContent changes of tab are explored
SwitchTabContent(tab_index) ==
    /\ tab_index = active_tab \/ switches < MaxSwitchesContent
    /\ tab_index \in DOMAIN tab_states \/ tab_index = active_tab
         \/ pane_counter < MaxCounter
    /\ Done(switch_tab(Cur, tab_index), "switch_tab")

\* rename_pane; at most MaxRenames panes with a name of their own are explored
RenamePane(pane_id, new_name) ==
    /\ pane_id \in IdArgs
    /\ NamesGiven < MaxRenames
    /\ Done(rename_pane(Cur, pane_id, new_name), "rename_pane")

\* the layout operations of the container, no command running
Next ==
    \/ \E d \in Directions : Split(d, "")
    \/ \E p \in IdArgs : ClosePane(p)
    \/ \E p \in IdArgs : FocusPane(p)
    \/ \E d \in FocusDirections : FocusDirection(d)
    \/ \E g \in BOOLEAN : ResizeFocused(g)
    \/ \E t \in Tabs : SwitchTab(t)

Spec == Init /\ [][Next]_vars

\* the same operations with resize_focused unbounded and fewer tab changes
NextResize ==
    \/ \E d \in Directions : Split(d, "")
    \/ \E p \in IdArgs : ClosePane(p)
    \/ \E d \in FocusDirections : FocusDirection(d)
    \/ \E g \in BOOLEAN : ResizeFocusedFree(g)
    \/ \E t \in Tabs : SwitchTabResize(t)

SpecResize == Init /\ [][NextResize]_vars

\* layout operations together with renames and commands
NextContent ==
    \/ \E d \in Directions, cmd \in Commands : SplitCommand(d, cmd)
    \/ \E p \in IdArgs : ClosePane(p)
    \/ \E t \in Tabs : SwitchTabContent(t)
    \/ \E p \in IdArgs, n \in NewNames : RenamePane(p, n)
    \/ \E p \in IdArgs, cmd \in Commands \ {""} : RunCommandInPane(p, cmd)
    \/ CommandStart
    \/ CommandFinish

SpecContent == Init /\ [][NextContent]_vars

\* commands and the operations that rebuild the layout under them. A queued
\* run_command is a callback of the message pump, which runs it once the
\* current handler is done; a started one waits for its subprocess for at
\* most 10 seconds. Both steps of every run are therefore taken eventually.
NextCommand ==
    \/ \E d \in Directions, cmd \in Commands : SplitCommand(d, cmd)
    \/ \E p \in IdArgs : ClosePane(p)
    \/ \E t \in Tabs : SwitchTabResize(t)
    \/ \E p \in IdArgs, cmd \in Commands \ {""} : RunCommandInPane(p, cmd)
    \/ CommandStart
    \/ CommandFinish

SpecCommand ==
    /\ Init /\ [][NextCommand]_vars
    /\ \A task \in 1..MaxRunning :
          WF_vars(CommandStartOf(task)) /\ WF_vars(CommandFinishOf(task))

\* the NavbarApp as one value
AppCur ==
    [current_mode |-> current_mode, active_tab |-> app_active_tab,
     tab_count |-> tab_count, tab_items |-> tab_items, queue |-> queue,
     sidebar_visible |-> sidebar_visible, status_visible |-> status_visible,
     exited |-> exited]

AppDone(a) ==
    /\ current_mode' = a.current_mode
    /\ app_active_tab' = a.active_tab
    /\ tab_count' = a.tab_count
    /\ tab_items' = a.tab_items
    /\ queue' = a.queue
    /\ sidebar_visible' = a.sidebar_visible
    /\ status_visible' = a.status_visible
    /\ exited' = a.exited

pcvars == <<nodes, tree, focused_pane_id, pane_counter, panes, pending_commands,
            running, active_tab, tab_states, resizes, switches>>

\* how many entries of the queue are callbacks named in names
Queued(names) == Cardinality({i \in 1..Len(queue) : queue[i].cb \in names})

\* a key press is handled; keys may be handled while callbacks of earlier
\* keys are still queued. At most MaxQueue entries are queued by keys, and
\* no more resizes and tab switches than are explored
Key(key) ==
    /\ ~exited
    /\ LET a == on_key(AppCur, key)
       IN  /\ a.queue # queue =>
                 /\ Len(queue) < MaxQueue
                 /\ resizes + Queued({"resize_focused"}) + 1 <= MaxResizes
                      \/ a.queue[Len(a.queue)].cb # "resize_focused"
                 /\ switches + Queued({"switch_tab"}) + 1 <= MaxSwitchesApp
                      \/ a.queue[Len(a.queue)].cb # "switch_tab"
           /\ a.tab_count <= MaxTabCount
           /\ AppDone(a)
    /\ UNCHANGED pcvars

\* a tab button of the sidebar is clicked
TabClicked(index) ==
    /\ ~exited
    /\ index \in 0..(tab_count - 1)
    /\ LET a == on_tab_list_tab_clicked(AppCur, index)
       IN  /\ a.queue # queue =>
                 /\ Len(queue) < MaxQueue
                 /\ switches + Queued({"switch_tab"}) + 1 <= MaxSwitchesApp
           /\ AppDone(a)
    /\ UNCHANGED pcvars

\* the oldest entry of the queue is taken and run to completion
ProcessQueue ==
    /\ ~exited
    /\ queue # <<>>
    /\ LET e == Head(queue)
           r == ContainerCall(Cur, e)
       IN  /\ e.cb \in {"split_horizontal", "split_vertical"}
                 => pane_counter < MaxCounterContent
           /\ (e.cb = "switch_tab" /\ e.arg \notin DOMAIN tab_states /\ e.arg # active_tab)
                 => pane_counter < MaxCounter
           /\ Install(r, e.cb)
           /\ AppDone(AfterCallback([AppCur EXCEPT !.queue = Tail(@)], e, r))

\* the keys pressed: all but the two that only show and hide parts of the
\* screen
KeysPressed == Keys \ {"b", "s"}

\* the application driven by keys and clicks
NextApp ==
    \/ \E key \in KeysPressed : Key(key)
    \/ \E i \in 0..(MaxTabCount - 1) : TabClicked(i)
    \/ ProcessQueue

SpecApp == Init /\ [][NextApp]_vars

\* ------------------------------------------------------------------------
\* Views used by the properties
\* ------------------------------------------------------------------------
\* a tree as a value: shape, axes, identifiers and weights, without the
\* identity of the node objects
RECURSIVE TreeOf(_, _)
TreeOf(h, n) ==
    IF is_leaf(h, n)
    THEN [pane_id |-> h[n].pane_id, split |-> h[n].split,
          size_weight |-> h[n].size_weight, kids |-> <<>>]
    ELSE [pane_id |-> NoId, split |-> h[n].split,
          size_weight |-> h[n].size_weight,
          kids |-> [k \in 1..Len(h[n].children) |-> TreeOf(h, h[n].children[k])]]

LiveIds == all_pane_ids(nodes, tree)
LiveTree == TreeOf(nodes, tree)
SavedTabs == DOMAIN tab_states
InactiveTabs == SavedTabs \ {active_tab}
SnapIds(t) == all_pane_ids(nodes, tab_states[t].tree)
SnapTree(t) == TreeOf(nodes, tab_states[t].tree)

\* the pane ids and the tree of a container value
IdsOf(c) == all_pane_ids(c.nodes, c.tree)
TreeIn(c) == TreeOf(c.nodes, c.tree)

\* a tree value without its weights
RECURSIVE ShapeOf(_)
ShapeOf(t) ==
    [pane_id |-> t.pane_id, split |-> t.split,
     kids |-> [k \in 1..Len(t.kids) |-> ShapeOf(t.kids[k])]]

\* the weight of the leaf pid in the tree rooted at n
LeafWeight(h, n, pid) == h[find_leaf(h, n, pid)].size_weight

\* s with x inserted right after the first occurrence of y
InsertAfter(s, y, x) ==
    LET i == IndexOf(s, y)
    IN  SubSeq(s, 1, i) \o <<x>> \o SubSeq(s, i + 1, Len(s))

\* s without its elements equal to x
RECURSIVE Without(_, _)
Without(s, x) ==
    IF Len(s) = 0 THEN <<>>
    ELSE IF s[1] = x THEN Without(Tail(s), x)
    ELSE <<s[1]>> \o Without(Tail(s), x)

RECURSIVE CountSplits(_, _)
CountSplits(h, n) ==
    IF is_leaf(h, n) THEN 0
    ELSE LET kids == h[n].children
         IN  1 + (IF Len(kids) >= 1 THEN CountSplits(h, kids[1]) ELSE 0)
               + (IF Len(kids) >= 2 THEN CountSplits(h, kids[2]) ELSE 0)

\* every node under n is a leaf (identifier, no children) or a split (no
\* identifier, an axis, exactly two children)
RECURSIVE LeafXorSplit(_, _)
LeafXorSplit(h, n) ==
    LET node == h[n]
    IN  \/ /\ node.pane_id # NoId
           /\ Len(node.children) = 0
        \/ /\ node.pane_id = NoId
           /\ node.split \in Directions
           /\ Len(node.children) = 2
           /\ LeafXorSplit(h, node.children[1])
           /\ LeafXorSplit(h, node.children[2])

WellFormedTree(h, n) ==
    /\ LeafXorSplit(h, n)
    /\ CountSplits(h, n) = Len(all_pane_ids(h, n)) - 1

TypeOK ==
    /\ tree \in 1..Len(nodes)
    /\ pane_counter \in 1..MaxCounter
    /\ active_tab \in Tabs


\* ------------------------------------------------------------------------
\* Properties
\* ------------------------------------------------------------------------

\* C1: after any sequence of operations the live tree has at least one leaf
\* (pane_count >= 1).
C1_LeafCount == Len(LiveIds) >= 1

\* the last pane left after splits and closes in the first tab; closing it
\* again is refused
C1_Witness ==
    /\ switches = 0
    /\ pane_counter > 1
    /\ Len(LiveIds) = 1
    /\ ~close_pane(Cur, NoId).ret
    /\ ~close_pane(Cur, focused_pane_id).ret

\* C2: every node of the live tree and of every saved tab snapshot is a leaf
\* XOR a split: a leaf has an identifier and no children, a split has no
\* identifier, an axis and exactly two children; so the number of split nodes
\* is the number of leaves minus one.
C2_LeafXorSplit ==
    /\ WellFormedTree(nodes, tree)
    /\ \A t \in SavedTabs : WellFormedTree(nodes, tab_states[t].tree)

\* a nested live tree of three leaves next to a saved tab that holds a split
C2_Witness ==
    /\ Len(LiveIds) = 3
    /\ depth(nodes, tree) = 2
    /\ \E t \in InactiveTabs : Len(SnapIds(t)) = 2

\* C3: pane identifiers are globally unique across tabs: no identifier is
\* both in the live tree and in the tree of an inactive tab's snapshot, nor
\* in the trees of two different inactive tabs.
C3_GloballyUnique ==
    /\ \A t \in InactiveTabs : SeqToSet(LiveIds) \cap SeqToSet(SnapIds(t)) = {}
    /\ \A t1, t2 \in InactiveTabs :
          t1 # t2 => SeqToSet(SnapIds(t1)) \cap SeqToSet(SnapIds(t2)) = {}

\* C4: the id counter never decreases, whatever the operation.
C4_CounterMonotone == [][pane_counter' >= pane_counter]_vars

\* C5: close_pane(id) with an id that is not a leaf of the live tree is a
\* refusal: it returns false and leaves the tree shape, the leaf set, the
\* weights and the focused identifier unchanged, for a tree of any size.
C5_UnknownCloseRefused ==
    \A p \in IdArgs \ {NoId} :
        p \notin SeqToSet(LiveIds) =>
            LET r == close_pane(Cur, p)
            IN  /\ ~r.ret
                /\ TreeIn(r.c) = LiveTree
                /\ r.c.focused = focused_pane_id

\* C6: focused_identifier names a leaf of the live tree, and the focused
\* identifier stored in every saved tab snapshot names a leaf of that
\* snapshot's tree.
C6_FocusResolves ==
    /\ focused_pane_id \in SeqToSet(LiveIds)
    /\ \A t \in SavedTabs : tab_states[t].focused_pane_id \in SeqToSet(SnapIds(t))

\* the content (name, command, output) of pane pid in container c
ContentOf(c, pid) == SavedTuple(c.panes[pid])

\* C7: split/close round trip: for every reachable tree T and focused leaf L,
\* whatever L's weight, split followed by close_pane() of the newly focused
\* pane yields a tree structurally equal to T in which L has the same
\* identifier, the same weight and the same content as before the split.
C7_SplitCloseRoundTrip ==
    \A d \in Directions :
        focused_pane_id \in SeqToSet(LiveIds) =>
            LET L == focused_pane_id
                r1 == split(Cur, d, "")
                r2 == close_pane(r1.c, NoId)
            IN  /\ r1.ret
                /\ r1.c.focused = r1.id
                /\ r2.ret
                /\ ShapeOf(TreeIn(r2.c)) = ShapeOf(LiveTree)
                /\ L \in SeqToSet(IdsOf(r2.c))
                /\ LeafWeight(r2.c.nodes, r2.c.tree, L) = LeafWeight(nodes, tree, L)
                /\ ContentOf(r2.c, L) = ContentOf(Cur, L)

\* the layout of tab t: the live tree and focus when t is active, the saved
\* ones otherwise
TabLayout(t) ==
    IF t = active_tab
    THEN [tree |-> LiveTree, ids |-> LiveIds, focused |-> focused_pane_id]
    ELSE [tree |-> SnapTree(t), ids |-> SnapIds(t),
          focused |-> tab_states[t].focused_pane_id]

Visited(t) == t = active_tab \/ t \in SavedTabs

\* C8: tab isolation round trip: from the moment a tab is left until it is
\* active again, whatever is done in the other tabs, its tree (leaf
\* identifiers in canonical order, shape, weights) and its focused
\* identifier stay what they were: a step changes the layout of a visited tab
\* only if that tab is active and the step is no tab switch.
C8_TabIsolation ==
    [][\A t \in Tabs :
          (Visited(t) /\ (t # active_tab \/ active_tab' # active_tab))
              => TabLayout(t)' = TabLayout(t)]_vars

\* a tab other than the first is active again: it was left with two panes,
\* the second one focused and resized (its stale snapshot still records the
\* focus and the counter of the departure), and the tab visited in between
\* was split during the visit
C8_Witness ==
    /\ active_tab # 0
    /\ switches = 3
    /\ active_tab \in SavedTabs
    /\ tab_states[active_tab].pane_counter = pane_counter
    /\ tab_states[active_tab].focused_pane_id = focused_pane_id
    /\ Len(LiveIds) = 2
    /\ focused_pane_id = LiveIds[2]
    /\ LeafWeight(nodes, tree, focused_pane_id) # DefaultWeight
    /\ \E t \in InactiveTabs : Len(SnapIds(t)) = 2

\* C9: when focused_identifier is a leaf of the live tree, split(axis)
\* returns a new identifier that was not in the tree, raises the leaf count by
\* exactly 1, yields the old canonical order with the new identifier inserted
\* right after the previously focused one, gives both new leaves weight 1.0
\* and makes the new identifier the focused one.
C9_SplitPostcondition ==
    \A d \in Directions, cmd \in Commands :
        focused_pane_id \in SeqToSet(LiveIds) =>
            LET r == split(Cur, d, cmd)
                ids2 == IdsOf(r.c)
            IN  /\ r.ret
                /\ r.id # NoId
                /\ r.id \notin SeqToSet(LiveIds)
                /\ Len(ids2) = Len(LiveIds) + 1
                /\ ids2 = InsertAfter(LiveIds, focused_pane_id, r.id)
                /\ LeafWeight(r.c.nodes, r.c.tree, focused_pane_id) = DefaultWeight
                /\ LeafWeight(r.c.nodes, r.c.tree, r.id) = DefaultWeight
                /\ r.c.focused = r.id

\* a state produced by a split (the focused pane is the newest one, second
\* child of its parent) in which the focused pane is resized and is not the
\* last pane, so that the next split inserts in the middle of the order
C9_Witness ==
    /\ Len(LiveIds) = 2
    /\ focused_pane_id = LiveIds[1]
    /\ LeafWeight(nodes, tree, focused_pane_id) # DefaultWeight
    /\ LET r == split(Cur, "vertical", "")
       IN  /\ IdsOf(r.c) = <<LiveIds[1], r.id, LiveIds[2]>>
           /\ r.c.focused = r.id

\* the tree value t with the leaf pid closed: the sibling of pid takes the
\* place of their parent
RECURSIVE CloseInTree(_, _)
CloseInTree(t, pid) ==
    IF Len(t.kids) # 2 THEN t
    ELSE IF t.kids[1].pane_id = pid THEN t.kids[2]
    ELSE IF t.kids[2].pane_id = pid THEN t.kids[1]
    ELSE [t EXCEPT !.kids = <<CloseInTree(t.kids[1], pid), CloseInTree(t.kids[2], pid)>>]

\* C10: every close_pane call that returns true removes exactly one leaf,
\* the target: the leaf count drops by exactly 1, the canonical order is the
\* old one with the target deleted, and the target's sibling subtree takes
\* the parent's slot with its structure intact.
C10_CloseRemovesTarget ==
    \A p \in IdArgs :
        LET r == close_pane(Cur, p)
            target == IF p # NoId THEN p ELSE focused_pane_id
        IN  r.ret =>
              /\ Len(IdsOf(r.c)) = Len(LiveIds) - 1
              /\ IdsOf(r.c) = Without(LiveIds, target)
              /\ TreeIn(r.c) = CloseInTree(LiveTree, target)

\* C11: after a successful close_pane, if the closed identifier was the
\* focused one, focused_identifier is the first identifier of the post-close
\* canonical order; if another pane was closed by id, focused_identifier is
\* unchanged.
C11_CloseFocusRule ==
    \A p \in IdArgs :
        LET r == close_pane(Cur, p)
            target == IF p # NoId THEN p ELSE focused_pane_id
        IN  r.ret =>
              /\ target = focused_pane_id => r.c.focused = IdsOf(r.c)[1]
              /\ target # focused_pane_id => r.c.focused = focused_pane_id

\* three panes with the middle one focused: closing it moves the focus to
\* the first pane of the two left, closing the last one by id leaves the
\* focus alone
C11_Witness ==
    /\ Len(LiveIds) = 3
    /\ focused_pane_id = LiveIds[2]
    /\ LET r == close_pane(Cur, NoId)
       IN  /\ r.ret
           /\ IdsOf(r.c) = <<LiveIds[1], LiveIds[3]>>
           /\ r.c.focused = LiveIds[1]
    /\ LET r == close_pane(Cur, LiveIds[3])
       IN  /\ r.ret
           /\ r.c.focused = focused_pane_id

\* C12: on a live tree with exactly one leaf, close_pane (with no id, with
\* the leaf's id or with any other id) returns false, leaves the tree, the
\* focused identifier, the id counter and the pane content unchanged, and
\* triggers no rebuild and no notification.
C12_LastPaneRefused ==
    Len(LiveIds) = 1 =>
        \A p \in IdArgs :
            LET r == close_pane(Cur, p)
            IN  /\ ~r.ret
                /\ r.c = Cur
                /\ r.msgs = <<>>

\* the only pane of a tab visited later, whose identifier is not 1, while
\* another tab is saved: every close is refused
C12_Witness ==
    /\ Len(LiveIds) = 1
    /\ active_tab # 0
    /\ InactiveTabs # {}
    /\ LiveIds[1] # 1
    /\ \A p \in {NoId, LiveIds[1], 1, MaxCounter + 1} : ~close_pane(Cur, p).ret

\* C13: if focused_identifier does not resolve to a leaf of the live tree,
\* split returns the failure value and is a no-op: the tree, the focused
\* identifier, the pending-command table and the id counter are exactly as
\* before the call.
C13_FailedSplitNoOp ==
    focused_pane_id \notin SeqToSet(LiveIds) =>
        \A d \in Directions, cmd \in Commands :
            LET r == split(Cur, d, cmd)
            IN  /\ ~r.ret
                /\ TreeIn(r.c) = LiveTree
                /\ r.c.focused = focused_pane_id
                /\ r.c.pending = pending_commands
                /\ r.c.counter = pane_counter

\* every child of a split node under n has weight >= MIN_WEIGHT
RECURSIVE MinWeightKept(_, _)
MinWeightKept(h, n) ==
    \A k \in 1..Len(h[n].children) :
        /\ ~FLess(h[h[n].children[k]].size_weight, MIN_WEIGHT)
        /\ MinWeightKept(h, h[n].children[k])

\* the leaf of the focused pane and the other child of its parent (NoRef
\* when there is none)
FocusedNode == find_leaf(nodes, tree, focused_pane_id)
FocusedSibling ==
    IF FocusedNode = NoRef \/ nodes[FocusedNode].parent = NoRef THEN NoRef
    ELSE SiblingOf(nodes, nodes[FocusedNode].parent, FocusedNode)

\* C14: in every reachable state every node that has a sibling, in the live
\* tree or in a saved snapshot, has weight >= MIN_WEIGHT, after any
\* interleaving of resize_focused, split, close_pane and switch_tab.
C14_MinWeight ==
    /\ MinWeightKept(nodes, tree)
    /\ \A t \in SavedTabs : MinWeightKept(nodes, tab_states[t].tree)

\* a tab left with two panes, one of them shrunk until one more step would
\* take it below MIN_WEIGHT: the snapshot holds that weight
C14_Witness ==
    \E t \in InactiveTabs :
        /\ Len(SnapIds(t)) = 2
        /\ \E k \in 1..2 :
              LET w == nodes[nodes[tab_states[t].tree].children[k]].size_weight
              IN  /\ FLess(w, DefaultWeight)
                  /\ FLess(FSub(w, RESIZE_STEP), MIN_WEIGHT)

\* C15: resize_focused on a focused leaf that has a sibling succeeds exactly
\* when the party that loses space (the sibling for grow, the focused leaf
\* for shrink) keeps weight >= MIN_WEIGHT after losing STEP; on success the
\* weight of the focused leaf is its old weight + STEP (grow) or - STEP
\* (shrink) and the sibling's its old weight changed the opposite way, in
\* the double arithmetic of the program.
C15_ResizeTransfer ==
    FocusedSibling # NoRef =>
        \A g \in BOOLEAN :
            LET r == resize_focused(Cur, g)
                fw == nodes[FocusedNode].size_weight
                sw == nodes[FocusedSibling].size_weight
                fw2 == r.c.nodes[FocusedNode].size_weight
                sw2 == r.c.nodes[FocusedSibling].size_weight
                left == FSub(IF g THEN sw ELSE fw, RESIZE_STEP)
            IN  /\ r.ret <=> ~FLess(left, MIN_WEIGHT)
                /\ r.ret /\ g => fw2 = FAdd(fw, RESIZE_STEP) /\ sw2 = FSub(sw, RESIZE_STEP)
                /\ r.ret /\ ~g => fw2 = FSub(fw, RESIZE_STEP) /\ sw2 = FAdd(sw, RESIZE_STEP)

\* a focused pane whose sibling cannot lose a step while the pane itself
\* can: growing is refused, shrinking succeeds
C15_Witness ==
    /\ FocusedSibling # NoRef
    /\ ~resize_focused(Cur, TRUE).ret
    /\ resize_focused(Cur, FALSE).ret
    /\ nodes[FocusedNode].size_weight # DefaultWeight
    /\ FLess(nodes[FocusedSibling].size_weight, nodes[FocusedNode].size_weight)

\* C16: a refused resize_focused (the focused leaf is the root, or the
\* transfer would push the losing party below MIN_WEIGHT) returns false and
\* leaves every weight, the tree and the focused identifier unchanged,
\* without a rebuild and without a notification.
C16_RefusedResizeNoOp ==
    \A g \in BOOLEAN :
        LET r == resize_focused(Cur, g)
        IN  (FocusedSibling = NoRef => ~r.ret)
            /\ (~r.ret => r.c = Cur /\ r.msgs = <<>>)

\* the second of three panes, shrunk to the limit: shrinking again is
\* refused although the pane has a sibling
C16_Witness ==
    /\ Len(LiveIds) = 3
    /\ focused_pane_id = LiveIds[2]
    /\ FocusedSibling # NoRef
    /\ ~resize_focused(Cur, FALSE).ret
    /\ resize_focused(Cur, TRUE).ret

\* the values returned by k consecutive resize_focused(grow) calls from c
RECURSIVE ResizeRun(_, _, _)
ResizeRun(c, grow, k) ==
    IF k = 0 THEN <<>>
    ELSE LET r == resize_focused(c, grow)
         IN  <<r.ret>> \o ResizeRun(r.c, grow, k - 1)

\* a two-leaf tree whose leaves both have the default weight, one of them
\* focused
FreshPair ==
    /\ Len(LiveIds) = 2
    /\ FocusedSibling # NoRef
    /\ nodes[FocusedNode].size_weight = DefaultWeight
    /\ nodes[FocusedSibling].size_weight = DefaultWeight

\* C17: from a fresh two-leaf sibling pair at weights 1.0/1.0, a run of
\* consecutive resize_focused(grow=true) calls with nothing in between
\* succeeds at least once and fewer than ten times, and once a call has
\* returned false every later call of the run returns false; the same for
\* resize_focused(grow=false).
C17_ResizeRunEnds ==
    FreshPair =>
        \A g \in BOOLEAN :
            LET rs == ResizeRun(Cur, g, MaxRun)
            IN  /\ rs[1]
                /\ Cardinality({i \in 1..MaxRun : rs[i]}) < 10
                /\ \A i, j \in 1..MaxRun : (i < j /\ ~rs[i]) => ~rs[j]

\* the end of a run of four grows from a fresh pair: the focused pane is at
\* 1.0 + 4 steps, its sibling at 1.0 - 4 steps, and the next grow is refused
C17_Witness ==
    /\ Len(LiveIds) = 2
    /\ FocusedSibling # NoRef
    /\ nodes[FocusedNode].size_weight =
          FAdd(FAdd(FAdd(FAdd(DefaultWeight, RESIZE_STEP), RESIZE_STEP), RESIZE_STEP), RESIZE_STEP)
    /\ nodes[FocusedSibling].size_weight =
          FSub(FSub(FSub(FSub(DefaultWeight, RESIZE_STEP), RESIZE_STEP), RESIZE_STEP), RESIZE_STEP)
    /\ ~resize_focused(Cur, TRUE).ret

\* the focused identifier after k consecutive focus_direction(direction)
RECURSIVE FocusRun(_, _, _)
FocusRun(c, direction, k) ==
    IF k = 0 THEN c.focused
    ELSE FocusRun(focus_direction(c, direction).c, direction, k - 1)

\* C18: focus_direction treats the canonical leaf order as a ring: with
\* n >= 2 leaves and the focus at index i, right/down moves the focus to
\* index (i+1) mod n and left/up to index (i-1) mod n, so n consecutive
\* 'right' calls bring the focus back and 'left' followed by 'right' is the
\* identity; with one leaf it is a no-op.
C18_FocusRing ==
    LET n == Len(LiveIds)
    IN  /\ (n >= 2 /\ focused_pane_id \in SeqToSet(LiveIds)) =>
              LET i == IndexOf(LiveIds, focused_pane_id) - 1
              IN  /\ \A d \in {"right", "down"} :
                        focus_direction(Cur, d).c.focused = LiveIds[((i + 1) % n) + 1]
                  /\ \A d \in {"left", "up"} :
                        focus_direction(Cur, d).c.focused = LiveIds[((i + n - 1) % n) + 1]
                  /\ FocusRun(Cur, "right", n) = focused_pane_id
                  /\ FocusRun(focus_direction(Cur, "left").c, "right", 1) = focused_pane_id
                  /\ \A d \in FocusDirections : IdsOf(focus_direction(Cur, d).c) = LiveIds
        /\ n = 1 =>
              \A d \in FocusDirections :
                  LET r == focus_direction(Cur, d)
                  IN  r.c = Cur /\ r.msgs = <<>>

\* three panes with the first one focused: 'left' wraps to the last pane
\* and 'right' from the last pane wraps back
C18_Witness ==
    /\ Len(LiveIds) = 3
    /\ focused_pane_id = LiveIds[1]
    /\ focus_direction(Cur, "left").c.focused = LiveIds[3]
    /\ FocusRun(Cur, "right", 2) = LiveIds[3]
    /\ FocusRun(Cur, "right", 3) = LiveIds[1]

\* the displayed panes that carry the focus flag
Flagged(c) == {q \in DOMAIN c.panes : c.panes[q].is_focused_pane}

\* C19: focus_pane(id) with an id unknown to the container changes nothing
\* and emits nothing; with a known id it sets focused_identifier to id,
\* clears the focus flag of the pane focused before, sets the flag of the new
\* pane, so that exactly one displayed pane carries the flag, and emits
\* FocusChanged(id, display name).
C19_FocusPane ==
    \A p \in IdArgs :
        LET r == focus_pane(Cur, p)
        IN  /\ p \notin DOMAIN panes => r.c = Cur /\ r.msgs = <<>>
            /\ p \in DOMAIN panes =>
                  /\ r.c.focused = p
                  /\ Flagged(r.c) = {p}
                  /\ r.msgs = <<FocusChanged(p, panes[p].pane_name)>>
                  /\ IdsOf(r.c) = LiveIds

\* three panes, the last one focused and flagged: focusing the first one
\* moves the flag
C19_Witness ==
    /\ Len(LiveIds) = 3
    /\ focused_pane_id = LiveIds[3]
    /\ Flagged(Cur) = {focused_pane_id}
    /\ LET r == focus_pane(Cur, LiveIds[1])
       IN  /\ r.c.focused = LiveIds[1]
           /\ ~r.c.panes[focused_pane_id].is_focused_pane

\* C20: switch_tab to a tab index that has no snapshot (first visit) yields
\* a live tree of exactly one leaf, whose identifier is fresh (carried by no
\* pane of the previous live tree nor of any saved tab snapshot), which is the
\* focused pane and has default content (generated name, empty command and
\* output).
C20_FirstVisitFresh ==
    \A t \in 0..(MaxTab + 1) :
        (t # active_tab /\ t \notin SavedTabs) =>
            LET r == switch_tab(Cur, t)
                ids == IdsOf(r.c)
            IN  /\ Len(ids) = 1
                /\ r.c.focused = ids[1]
                /\ ids[1] \notin SeqToSet(LiveIds)
                /\ \A u \in DOMAIN r.c.tab_states :
                      ids[1] \notin SeqToSet(all_pane_ids(r.c.nodes, r.c.tab_states[u].tree))
                /\ DOMAIN r.c.panes = {ids[1]}
                /\ r.c.panes[ids[1]] = Pane(DefaultName(ids[1]), "", "", TRUE)

\* C23: get_tab_pane_count(i) returns the live leaf count when i is the
\* active tab, the leaf count of i's snapshot tree when i is an inactive
\* visited tab, and 1 when i was never visited; in all three cases it equals
\* the pane count observed right after switch_tab(i).
C23_TabPaneCount ==
    \A i \in 0..(MaxTab + 1) :
        LET n == get_tab_pane_count(Cur, i)
        IN  /\ i = active_tab => n = Len(LiveIds)
            /\ i \in InactiveTabs => n = Len(SnapIds(i))
            /\ (i # active_tab /\ i \notin SavedTabs) => n = 1
            /\ n = pane_count(switch_tab(Cur, i).c)

\* the active tab has an outdated snapshot of its own with another leaf
\* count than the live tree, and an inactive tab has yet another count
C23_Witness ==
    /\ active_tab \in SavedTabs
    /\ Len(SnapIds(active_tab)) # Len(LiveIds)
    /\ \E t \in InactiveTabs :
          /\ Len(SnapIds(t)) # Len(LiveIds)
          /\ get_tab_pane_count(Cur, t) = Len(SnapIds(t))
    /\ get_tab_pane_count(Cur, MaxTab + 1) = 1

\* r posted PaneCountChanged with the leaf count of its live tree, and
\* nothing else about counts
CountAnnounced(r) ==
    MsgsOfType(r.msgs, "PaneCountChanged") = {PaneCountChanged(Len(IdsOf(r.c)))}

\* r posted neither PaneCountChanged nor TabSwitched
NothingAnnounced(r) ==
    /\ MsgsOfType(r.msgs, "PaneCountChanged") = {}
    /\ MsgsOfType(r.msgs, "TabSwitched") = {}

\* C24: every successful split, close_pane and resize_focused, and every
\* switch_tab to a different index, emits a PaneCountChanged notification
\* whose count is the leaf count of the live tree after the operation;
\* switch_tab also emits TabSwitched with the target index; refused
\* operations and switch_tab to the active index emit neither.
C24_Notifications ==
    /\ \A d \in Directions, cmd \in Commands :
          LET r == split(Cur, d, cmd)
          IN  IF r.ret THEN CountAnnounced(r) /\ MsgsOfType(r.msgs, "TabSwitched") = {}
              ELSE NothingAnnounced(r)
    /\ \A p \in IdArgs :
          LET r == close_pane(Cur, p)
          IN  IF r.ret THEN CountAnnounced(r) /\ MsgsOfType(r.msgs, "TabSwitched") = {}
              ELSE NothingAnnounced(r)
    /\ \A g \in BOOLEAN :
          LET r == resize_focused(Cur, g)
          IN  IF r.ret THEN CountAnnounced(r) /\ MsgsOfType(r.msgs, "TabSwitched") = {}
              ELSE NothingAnnounced(r)
    /\ \A t \in 0..(MaxTab + 1) :
          LET r == switch_tab(Cur, t)
          IN  IF t # active_tab
              THEN /\ CountAnnounced(r)
                   /\ MsgsOfType(r.msgs, "TabSwitched") = {TabSwitched(t)}
              ELSE NothingAnnounced(r)

\* three panes next to a saved tab of another size: a close announces 2
\* panes, a switch announces the size of the other tab, a resize announces
\* 3 panes and a split 4
C24_Witness ==
    /\ Len(LiveIds) = 3
    /\ close_pane(Cur, NoId).msgs = <<PaneCountChanged(2)>>
    /\ \E t \in InactiveTabs :
          /\ Len(SnapIds(t)) = 1
          /\ switch_tab(Cur, t).msgs = <<PaneCountChanged(1), TabSwitched(t)>>
    /\ \E g \in BOOLEAN : resize_focused(Cur, g).msgs = <<PaneCountChanged(3)>>
    /\ PaneCountChanged(4) \in MsgsOfType(split(Cur, "horizontal", "").msgs, "PaneCountChanged")

\* every pane that c and d both have has the same content in both
SameContent(c, d) ==
    \A pid \in DOMAIN c.panes \cap DOMAIN d.panes :
        ContentOf(d, pid) = ContentOf(c, pid)

\* C21: content persistence across rebuild: after every split, close_pane
\* and resize_focused, each leaf that exists both before and after the
\* operation has exactly the (name, command, output) it had before, a name
\* given by a rename and the output of an earlier command included.
C21_ContentKept ==
    /\ \A d \in Directions, cmd \in Commands : SameContent(Cur, split(Cur, d, cmd).c)
    /\ \A p \in IdArgs : SameContent(Cur, close_pane(Cur, p).c)
    /\ \A g \in BOOLEAN : SameContent(Cur, resize_focused(Cur, g).c)

\* two panes, one of them renamed and showing the output of a finished
\* command; it is still there, unchanged, after a split, after the other
\* pane is closed and after a resize that succeeds
C21_Witness ==
    \E pid \in DOMAIN panes, q \in DOMAIN panes :
        /\ pid # q
        /\ panes[pid].pane_name \in NewNames
        /\ panes[pid].command # ""
        /\ panes[pid].command_output \in Outcomes
        /\ split(Cur, "vertical", "echo hi").ret
        /\ pid \in DOMAIN split(Cur, "vertical", "echo hi").c.panes
        /\ close_pane(Cur, q).ret
        /\ pid \in DOMAIN close_pane(Cur, q).c.panes
        /\ resize_focused(Cur, TRUE).ret
        /\ pid \in DOMAIN resize_focused(Cur, TRUE).c.panes

\* the content of the panes of tab t: what is displayed when t is active,
\* what was saved on departure otherwise
TabContent(t) ==
    IF t = active_tab THEN SavePanes(panes)
    ELSE IF t \in SavedTabs THEN tab_states[t].saved_pane_data
    ELSE EmptyMap

\* C22: content persistence across tab switches: from the moment a tab is
\* left until it is active again, whatever is run or renamed in the other
\* tabs, every pane of the tab keeps exactly its (name, command, output) and
\* nothing else appears in it: a step changes the content of a visited tab
\* only if that tab is active and the step is no tab switch.
C22_TabContentKept ==
    [][\A t \in Tabs :
          (Visited(t) /\ (t # active_tab \/ active_tab' # active_tab))
              => TabContent(t)' = TabContent(t)]_vars

\* back on the first tab after two switches: its pane still has the name
\* and the command output it was left with, while a pane of the tab visited
\* in between shows the outcome of a command run there
C22_Witness ==
    /\ active_tab = 0
    /\ switches = 2
    /\ \E pid \in DOMAIN panes :
          /\ panes[pid].pane_name \in NewNames
          /\ panes[pid].command_output = "hi"
          /\ 0 \in SavedTabs
          /\ pid \in DOMAIN tab_states[0].saved_pane_data
          /\ tab_states[0].saved_pane_data[pid] = SavedTuple(panes[pid])
    /\ \E t \in InactiveTabs :
          \E q \in DOMAIN tab_states[t].saved_pane_data :
              tab_states[t].saved_pane_data[q].command_output = "(timeout)"

\* C26: run_command_in_pane(id, cmd) returns false and changes no pane's
\* command or output when the container has no pane id; otherwise it returns
\* true, records cmd on that pane and leaves the command and output of every
\* other pane alone; run_command_in_focused does so for the focused pane.
C26_RunCommandTarget ==
    \A cmd \in Commands \ {""} :
        /\ \A p \in IdArgs :
              LET r == run_command_in_pane(Cur, p, cmd)
              IN  IF p \in DOMAIN panes
                  THEN /\ r.ret
                       /\ r.c.panes[p].command = cmd
                       /\ \A q \in DOMAIN panes \ {p} : r.c.panes[q] = panes[q]
                       /\ DOMAIN r.c.panes = DOMAIN panes
                  ELSE /\ ~r.ret
                       /\ r.c.panes = panes
        /\ LET r == run_command_in_focused(Cur, cmd)
           IN  IF focused_pane_id \in DOMAIN panes
               THEN /\ r.ret
                    /\ r.c.panes[focused_pane_id].command = cmd
                    /\ \A q \in DOMAIN panes \ {focused_pane_id} : r.c.panes[q] = panes[q]
               ELSE ~r.ret /\ r.c.panes = panes

\* two panes, the one that is not focused showing the output of a finished
\* command: a command sent to the focused pane leaves it alone, one sent to
\* an identifier nobody has is refused
C26_Witness ==
    /\ Len(LiveIds) = 2
    /\ \E q \in DOMAIN panes \ {focused_pane_id} :
          /\ panes[q].command_output \in Outcomes
          /\ run_command_in_pane(Cur, focused_pane_id, "echo hi").c.panes[q] = panes[q]
    /\ run_command_in_focused(Cur, "echo hi").c.panes[focused_pane_id].command_output
          = RunningText
    /\ ~run_command_in_pane(Cur, MaxCounter + 1, "echo hi").ret

\* C27: a command run on a pane always reaches a final outcome: the step
\* in which the run starts puts the running placeholder (and the command) on
\* its pane; the step in which it returns stores the captured text,
\* "(no output)", "(timeout)" or the error sentinel there, never the
\* placeholder; and every run returns.
C27_CommandOutcome ==
    /\ [][\A r \in running' :
             (/\ r.stage = "started"
              /\ r.pane # NoId
              /\ ~\E e \in running : e.task = r.task /\ e.stage = "started")
                 => /\ panes'[r.pane].command_output = RunningText
                    /\ panes'[r.pane].command = r.cmd]_vars
    /\ [][\A r \in running :
             (/\ r.stage = "started"
              /\ r.pane # NoId
              /\ ~\E e \in running' : e.task = r.task)
                 => /\ panes'[r.pane].command_output \in Outcomes
                    /\ panes'[r.pane].command_output # RunningText]_vars
    /\ \A task \in 1..MaxRunning :
          (\E r \in running : r.task = task) ~> ~(\E r \in running : r.task = task)

\* no command is in flight and a pane shows "(timeout)" as the outcome of
\* its command, next to a pane that shows what its command printed
C27_Witness ==
    /\ running = {}
    /\ \E p \in DOMAIN panes, q \in DOMAIN panes :
          /\ panes[p].command = "echo hi" /\ panes[p].command_output = "(timeout)"
          /\ panes[q].command = "echo hi" /\ panes[q].command_output = "hi"

\* C25: the sidebar shows the correct pane counts: whatever keys were
\* pressed and tabs clicked, once every queued callback and notification has
\* been processed, the pane count displayed for every tab equals
\* get_tab_pane_count of that tab.
C25_SidebarCounts ==
    queue = <<>> =>
        \A i \in 0..(tab_count - 1) : tab_items[i + 1] = get_tab_pane_count(Cur, i)

\* C28: in PANE mode each of the keys h, j, k and l moves the pane focus
\* (left, down, up, right respectively): it schedules that focus move and
\* nothing else, and running what it scheduled leaves the number of panes as
\* it is.
C28_PaneModeFocusKeys ==
    current_mode = "pane" =>
        \A key \in {"h", "j", "k", "l"} :
            LET a == on_key(AppCur, key)
                direction == CASE key = "h" -> "left" [] key = "j" -> "down"
                               [] key = "k" -> "up" [] key = "l" -> "right"
            IN  /\ a.queue = Append(queue, Callback("focus_direction", direction))
                /\ pane_count(ContainerCall(Cur, a.queue[Len(a.queue)]).c) = pane_count(Cur)

C30_ActiveTabInRange ==
    /\ app_active_tab \in 0..(tab_count - 1)
    /\ current_mode = "tab" =>
          /\ \A key \in Digits :
                LET a == on_key(AppCur, key)
                    idx == DigitValue(key) - 1
                IN  /\ a.current_mode = "normal"
                    /\ a.active_tab = IF idx \in 0..(tab_count - 1) THEN idx
                                      ELSE app_active_tab
          /\ LET a == on_key(AppCur, "h")
             IN  /\ a.current_mode = "tab"
                 /\ a.active_tab = IF app_active_tab = 0 THEN 0 ELSE app_active_tab - 1
          /\ LET a == on_key(AppCur, "l")
             IN  /\ a.current_mode = "tab"
                 /\ a.active_tab = IF app_active_tab = tab_count - 1 THEN app_active_tab
                                   ELSE app_active_tab + 1
    /\ \A i \in 0..(tab_count - 1) : on_tab_list_tab_clicked(AppCur, i).active_tab = i

\* TAB mode on the last of four tabs, the fourth added with n: l stays, 5
\* and 0 select nothing, 1 jumps to the first tab
C30_Witness ==
    /\ current_mode = "tab"
    /\ tab_count = InitialTabCount + 1
    /\ app_active_tab = tab_count - 1
    /\ on_key(AppCur, "l").active_tab = app_active_tab
    /\ on_key(AppCur, "5").active_tab = app_active_tab
    /\ on_key(AppCur, "0").active_tab = app_active_tab
    /\ on_key(AppCur, "1").active_tab = 0

\* the runs that r added to those of the current state
NewRuns(r) == {e \in r.c.running : e.task \notin {x.task : x \in running}}

\* C31: a command supplied to split is dispatched exactly once, to the new
\* leaf, by the rebuild of that split: a successful split with a command
\* queues one run, bound to the identifier it returns; a split without a
\* command, a failed split and every other rebuild queue none; and the
\* pending-command table is empty after every operation.
C31_PendingDispatch ==
    /\ pending_commands = EmptyMap
    /\ \A d \in Directions, cmd \in Commands :
          LET r == split(Cur, d, cmd)
          IN  /\ r.c.pending = EmptyMap
              /\ IF r.ret /\ cmd # ""
                 THEN /\ r.id \notin SeqToSet(LiveIds)
                      /\ r.id \in SeqToSet(IdsOf(r.c))
                      /\ \E e \in r.c.running :
                            /\ NewRuns(r) = {e}
                            /\ e.pane = r.id /\ e.cmd = cmd /\ e.stage = "queued"
                 ELSE NewRuns(r) = {}
              /\ Cardinality(r.c.running) = Cardinality(running) + Cardinality(NewRuns(r))
    /\ \A p \in IdArgs :
          LET r == close_pane(Cur, p)
          IN  r.c.pending = EmptyMap /\ NewRuns(r) = {}
                /\ Cardinality(r.c.running) = Cardinality(running)
    /\ \A g \in BOOLEAN :
          LET r == resize_focused(Cur, g)
          IN  r.c.pending = EmptyMap /\ NewRuns(r) = {}
                /\ Cardinality(r.c.running) = Cardinality(running)
    /\ \A t \in 0..(MaxTab + 1) :
          LET r == switch_tab(Cur, t)
          IN  r.c.pending = EmptyMap /\ NewRuns(r) = {}
                /\ Cardinality(r.c.running) = Cardinality(running)

\* a split with a command has just happened: its run is queued for the new
\* pane, which is focused and shows nothing yet, and the table is empty
C31_Witness ==
    /\ pending_commands = EmptyMap
    /\ \E e \in running :
          /\ e.stage = "queued"
          /\ e.pane = focused_pane_id
          /\ e.pane \in DOMAIN panes
          /\ e.cmd = "echo hi"
          /\ panes[e.pane].command = ""
          /\ Len(LiveIds) = 2

\* the panes of c are registered under exactly the leaf identifiers of its
\* tree, one pane per leaf
RegistryMatches(c) ==
    /\ DOMAIN c.panes = SeqToSet(IdsOf(c))
    /\ Cardinality(DOMAIN c.panes) = Len(IdsOf(c))

\* C32: whenever no operation is in progress, the identifiers with a
\* registered displayed pane are exactly the leaf identifiers of the live
\* tree, one pane per leaf: no pane of a closed leaf or of another tab stays
\* registered, in the current state and after every operation applied to it.
C32_RegistryIsLeaves ==
    /\ RegistryMatches(Cur)
    /\ \A d \in Directions : RegistryMatches(split(Cur, d, "").c)
    /\ \A p \in IdArgs : RegistryMatches(close_pane(Cur, p).c)
    /\ \A p \in IdArgs : RegistryMatches(focus_pane(Cur, p).c)
    /\ \A g \in BOOLEAN : RegistryMatches(resize_focused(Cur, g).c)
    /\ \A t \in 0..(MaxTab + 1) : RegistryMatches(switch_tab(Cur, t).c)

\* back on a tab with one pane while the tab left behind holds two with
\* higher identifiers: the registry holds that one pane only
C32_Witness ==
    /\ Len(LiveIds) = 1
    /\ DOMAIN panes = {LiveIds[1]}
    /\ switches >= 2
    /\ \E t \in InactiveTabs :
          /\ Len(SnapIds(t)) = 2
          /\ pane_counter < tab_states[t].pane_counter
          /\ DOMAIN switch_tab(Cur, t).c.panes = SeqToSet(SnapIds(t))

\* what the snapshot of tab t in container c holds: the tree (shape, axes,
\* identifiers, weights), the focused identifier, the counter and the content
SnapshotOf(c, t) ==
    [tree |-> TreeOf(c.nodes, c.tab_states[t].tree),
     focused_pane_id |-> c.tab_states[t].focused_pane_id,
     pane_counter |-> c.tab_states[t].pane_counter,
     saved_pane_data |-> c.tab_states[t].saved_pane_data]

\* the result r left the snapshots of the tabs ts as they are in the
\* current state
SnapshotsKept(r, ts) ==
    /\ ts \subseteq DOMAIN r.c.tab_states
    /\ \A t \in ts : SnapshotOf(r.c, t) = SnapshotOf(Cur, t)

\* C33: no operation on the active tab (split, close_pane, resize_focused,
\* focus_pane, focus_direction, run_command_in_pane) changes the tree, the
\* weights, the focused identifier or the saved content of the snapshot of an
\* inactive tab or adds or removes a snapshot of one; switch_tab changes only
\* the snapshot of the tab that is left.
C33_InactiveSnapshotsKept ==
    /\ \A d \in Directions, cmd \in Commands :
          SnapshotsKept(split(Cur, d, cmd), InactiveTabs)
    /\ \A p \in IdArgs : SnapshotsKept(close_pane(Cur, p), InactiveTabs)
    /\ \A g \in BOOLEAN : SnapshotsKept(resize_focused(Cur, g), InactiveTabs)
    /\ \A p \in IdArgs : SnapshotsKept(focus_pane(Cur, p), InactiveTabs)
    /\ \A d \in FocusDirections : SnapshotsKept(focus_direction(Cur, d), InactiveTabs)
    /\ \A p \in IdArgs : SnapshotsKept(run_command_in_pane(Cur, p, "echo hi"), InactiveTabs)
    /\ \A op \in {split(Cur, "vertical", ""), close_pane(Cur, NoId),
                   resize_focused(Cur, TRUE), focus_direction(Cur, "right")} :
          DOMAIN op.c.tab_states = DOMAIN tab_states
    /\ \A t \in 0..(MaxTab + 1) :
          LET r == switch_tab(Cur, t)
          IN  /\ SnapshotsKept(r, InactiveTabs)
              /\ DOMAIN r.c.tab_states \subseteq DOMAIN tab_states \cup {active_tab}

\* an inactive tab holds two panes of unequal weight while the active tab,
\* whose own snapshot is out of date, has two panes that can be closed,
\* split and resized
C33_Witness ==
    /\ Len(LiveIds) = 2
    /\ active_tab \in SavedTabs
    /\ SnapshotOf(Cur, active_tab).tree # LiveTree
    /\ resize_focused(Cur, TRUE).ret
    /\ close_pane(Cur, NoId).ret
    /\ \E t \in InactiveTabs :
          /\ Len(SnapIds(t)) = 2
          /\ \E k \in 1..2 : SnapTree(t).kids[k].size_weight # DefaultWeight

\* the identifiers ids are pairwise distinct
Distinct(ids) == Cardinality(SeqToSet(ids)) = Len(ids)

\* C34: within the live tree and within each tab's snapshot the leaf
\* identifiers are pairwise distinct; the counter is at least the number of
\* every identifier of the live tree, so the identifier a split mints is not
\* in the live tree; find_leaf on a live identifier returns the one leaf that
\* carries it.
C34_DistinctWithinTree ==
    /\ Distinct(LiveIds)
    /\ \A t \in SavedTabs : Distinct(SnapIds(t))
    /\ \A k \in 1..Len(LiveIds) : LiveIds[k] <= pane_counter
    /\ \A d \in Directions :
          LET r == split(Cur, d, "")
          IN  /\ r.id \notin SeqToSet(LiveIds)
              /\ Distinct(IdsOf(r.c))
    /\ \A p \in SeqToSet(LiveIds) :
          /\ find_leaf(nodes, tree, p) # NoRef
          /\ {n \in 1..Len(nodes) :
                 /\ is_leaf(nodes, n)
                 /\ nodes[n].pane_id = p
                 /\ n \in SeqToSet(Visit(nodes, tree, <<>>))} = {find_leaf(nodes, tree, p)}

\* back on a tab whose restored counter is below the identifiers of the tab
\* left behind: the next split mints an identifier that the other tab holds
\* but the live tree does not
C34_Witness ==
    /\ Len(LiveIds) >= 2
    /\ switches >= 2
    /\ \E t \in InactiveTabs :
          /\ next_pane_id(Cur) \in SeqToSet(SnapIds(t))
          /\ split(Cur, "vertical", "").id = next_pane_id(Cur)
          /\ next_pane_id(Cur) \notin SeqToSet(LiveIds)

\* below node n every child of a split node names that node as its parent
RECURSIVE ChildrenNameParent(_, _)
ChildrenNameParent(h, n) ==
    \/ is_leaf(h, n)
    \/ \A k \in 1..Len(h[n].children) :
          /\ h[h[n].children[k]].parent = n
          /\ ChildrenNameParent(h, h[n].children[k])

\* the tree under root has a root without parent and consistent back-references
ParentsConsistent(h, root) ==
    /\ h[root].parent = NoRef
    /\ ChildrenNameParent(h, root)

\* C35 (amended): in the live tree and in the snapshot of every inactive tab
\* the root has no parent and both children of every split node name it as
\* their parent, in every reachable state and after a split or a close_pane
\* with any argument.
C35_LiveAndInactive ==
    /\ ParentsConsistent(nodes, tree)
    /\ \A t \in InactiveTabs : ParentsConsistent(nodes, tab_states[t].tree)
    /\ \A d \in Directions :
          LET r == split(Cur, d, "") IN ParentsConsistent(r.c.nodes, r.c.tree)
    /\ \A p \in IdArgs :
          LET r == close_pane(Cur, p) IN ParentsConsistent(r.c.nodes, r.c.tree)

\* C35: parent back-references are consistent with the children lists in the
\* live tree and in every snapshot tree: the root has no parent and both
\* children of every split node S have parent S, after any sequence of split
\* and close_pane.
C35_ParentsConsistent ==
    /\ ParentsConsistent(nodes, tree)
    /\ \A t \in SavedTabs : ParentsConsistent(nodes, tab_states[t].tree)

\* after a return to a tab a close promoted a subtree to the root: the live
\* tree and the other tab's snapshot are consistent, while the entry still
\* kept for the active tab holds the old root, whose child now has no parent
C35_Witness ==
    /\ Len(LiveIds) >= 2
    /\ active_tab \in SavedTabs
    /\ ~ParentsConsistent(nodes, tab_states[active_tab].tree)
    /\ \E t \in InactiveTabs :
          /\ Len(SnapIds(t)) >= 2
          /\ ParentsConsistent(nodes, tab_states[t].tree)

\* C36: a command's result is not lost to a rebuild: when a rebuild (split,
\* close of another pane, tab switch away and back) happens while a command
\* is in flight in a pane that stays open, the pane registered under that
\* identifier shows the final output once the command has finished; so when
\* no command is in flight any more, no displayed pane still shows the
\* running placeholder.
C36_ResultSurvivesRebuild ==
    running = {} => \A p \in DOMAIN panes : panes[p].command_output # RunningText

\* the operation with result r either left the focused identifier as it is
\* in the current state or posted a FocusChanged carrying the new one
FocusAnnounced(r) ==
    r.c.focused # focused_pane_id =>
        \E k \in 1..Len(r.msgs) :
            /\ r.msgs[k].type = "FocusChanged"
            /\ r.msgs[k].pane_id = r.c.focused

\* C37: every change of the focused identifier is announced: an operation
\* (split, focus_pane, focus_direction, close_pane, switch_tab) that leaves
\* the focused identifier different from what it was posts a FocusChanged
\* carrying the new focused identifier.
C37_FocusAnnounced ==
    /\ \A d \in Directions : FocusAnnounced(split(Cur, d, ""))
    /\ \A p \in IdArgs : FocusAnnounced(focus_pane(Cur, p))
    /\ \A d \in FocusDirections : FocusAnnounced(focus_direction(Cur, d))
    /\ \A p \in IdArgs : FocusAnnounced(close_pane(Cur, p))
    /\ \A t \in 0..(MaxTab + 1) : FocusAnnounced(switch_tab(Cur, t))

\* (a2 + b2) - (a + b), exactly, in units of 2^-55
SumDiff(a, b, a2, b2) ==
    ((a2.hi + b2.hi) - (a.hi + b.hi)) * LimbBase + ((a2.lo + b2.lo) - (a.lo + b.lo))

\* a2 + b2 is a + b as the program's double addition computes the two sums
SameSum(a, b, a2, b2) == FAdd(a2, b2) = FAdd(a, b)

\* a2 + b2 is within the rounding of the two operations that produced a2 and
\* b2 (half a unit in the last place each) of a + b
SameSumRounded(a, b, a2, b2) ==
    LET d == SumDiff(a, b, a2, b2)
        e == Ulp(a2.hi) + Ulp(b2.hi)
    IN  2 * d <= e /\ 0 - e <= 2 * d

\* a successful resize_focused(grow) of the current state changes the weight
\* of the focused leaf and of its sibling and nothing else: every other node,
\* the shape, identifiers and parents of the two, the root, the focused
\* identifier, the counter and the active tab are as before
ResizeFrame(g) ==
    LET r == resize_focused(Cur, g)
    IN  r.ret =>
          /\ FocusedSibling # NoRef
          /\ Len(r.c.nodes) = Len(nodes)
          /\ \A n \in 1..Len(nodes) :
                IF n \in {FocusedNode, FocusedSibling}
                THEN /\ [r.c.nodes[n] EXCEPT !.size_weight = nodes[n].size_weight] = nodes[n]
                     /\ r.c.nodes[n].size_weight # nodes[n].size_weight
                ELSE r.c.nodes[n] = nodes[n]
          /\ r.c.tree = tree
          /\ IdsOf(r.c) = LiveIds
          /\ r.c.focused = focused_pane_id
          /\ r.c.counter = pane_counter
          /\ r.c.active_tab = active_tab

\* a successful resize_focused(grow) of the current state leaves the sum of
\* the weights of the focused leaf and its sibling, taken in doubles, as it is
ResizeSum(g) ==
    LET r == resize_focused(Cur, g)
    IN  r.ret => SameSum(nodes[FocusedNode].size_weight,
                         nodes[FocusedSibling].size_weight,
                         r.c.nodes[FocusedNode].size_weight,
                         r.c.nodes[FocusedSibling].size_weight)

\* the same with the sum kept up to the rounding of the transfer
ResizeSumRounded(g) ==
    LET r == resize_focused(Cur, g)
    IN  r.ret => SameSumRounded(nodes[FocusedNode].size_weight,
                                nodes[FocusedSibling].size_weight,
                                r.c.nodes[FocusedNode].size_weight,
                                r.c.nodes[FocusedSibling].size_weight)

\* C38: a successful resize_focused changes only the weights of the focused
\* leaf and its sibling and preserves their sum; the tree shape, the
\* identifiers and their order, the focused identifier, the counter and every
\* other node's weight are unchanged.
C38_ResizeFrame ==
    \A g \in BOOLEAN : ResizeFrame(g) /\ ResizeSum(g)

\* C38 (amended): as C38, with the sum of the two weights preserved up to the
\* rounding of the two double operations of the transfer.
C38_ResizeFrameRounded ==
    \A g \in BOOLEAN : ResizeFrame(g) /\ ResizeSumRounded(g)

\* a pane, resized before, that can shrink once more, with a sum of weights
\* that the transfer does not reproduce exactly
C38_Witness ==
    /\ FocusedSibling # NoRef
    /\ nodes[FocusedNode].size_weight # DefaultWeight
    /\ resize_focused(Cur, FALSE).ret
    /\ ~ResizeSum(FALSE)
    /\ ResizeSumRounded(FALSE)

\* the operation with result r left the live tree (nodes, shape, leaf order,
\* weights), the counter, the active tab and every tab snapshot as they are
\* in the current state
LayoutKept(r) ==
    /\ r.c.nodes = nodes
    /\ r.c.tree = tree
    /\ r.c.counter = pane_counter
    /\ r.c.active_tab = active_tab
    /\ r.c.tab_states = tab_states

\* the operation with result r changed at most the focused identifier and
\* the focus flags of the displayed panes
OnlyFocusMoved(r) ==
    /\ LayoutKept(r)
    /\ r.c.pending = pending_commands
    /\ r.c.running = running
    /\ DOMAIN r.c.panes = DOMAIN panes
    /\ \A p \in DOMAIN panes :
          [r.c.panes[p] EXCEPT !.is_focused_pane = panes[p].is_focused_pane] = panes[p]

\* C39: focus_pane, focus_direction, run_command_in_pane and
\* run_command_in_focused never change the live tree's shape, leaf order or
\* weights, the counter, the active tab or a tab snapshot; the focus
\* operations change at most the focused identifier and the focus flags, the
\* command operations leave the focused identifier alone.
C39_ReadOnlyOperations ==
    /\ \A p \in IdArgs : OnlyFocusMoved(focus_pane(Cur, p))
    /\ \A d \in FocusDirections : OnlyFocusMoved(focus_direction(Cur, d))
    /\ \A cmd \in Commands :
          /\ \A p \in IdArgs :
                LET r == run_command_in_pane(Cur, p, cmd)
                IN  LayoutKept(r) /\ r.c.focused = focused_pane_id
          /\ LET r == run_command_in_focused(Cur, cmd)
              IN  LayoutKept(r) /\ r.c.focused = focused_pane_id

\* three panes of unequal weight next to a saved tab: moving the focus to the
\* left changes the focused identifier, and a command can be started in the
\* focused pane
C39_Witness ==
    /\ Len(LiveIds) = 3
    /\ InactiveTabs # {}
    /\ \E p \in SeqToSet(LiveIds) : LeafWeight(nodes, tree, p) # DefaultWeight
    /\ focus_direction(Cur, "left").c.focused # focused_pane_id
    /\ run_command_in_focused(Cur, "echo hi").ret
    /\ run_command_in_focused(Cur, "echo hi").c.panes # panes

\* the arguments of the switch_tab callbacks in the queue q, oldest first
RECURSIVE SwitchArgs(_)
SwitchArgs(q) ==
    IF q = <<>> THEN <<>>
    ELSE IF Head(q).cb = "switch_tab" THEN <<Head(q).arg>> \o SwitchArgs(Tail(q))
    ELSE SwitchArgs(Tail(q))

\* the tabs the container is on and will be on as the queue is worked off
TabChain == <<active_tab>> \o SwitchArgs(queue)

\* C40: the application and the container agree on the active tab once the
\* queue is drained: when no switch_tab callback is queued the container's
\* active tab is the application's active_tab; the queued switch_tab callbacks
\* are the changes of active_tab in the order in which they were made, each
\* to a tab other than the one before it and the last to the application's
\* active_tab.
C40_TabsAgree ==
    /\ TabChain[Len(TabChain)] = app_active_tab
    /\ \A i \in 1..(Len(TabChain) - 1) : TabChain[i] # TabChain[i + 1]
    /\ Queued({"switch_tab"}) = 0 => active_tab = app_active_tab

\* two changes of tab have been worked off and nothing is queued: both are
\* on a tab other than the first
C40_Witness ==
    /\ switches >= 2
    /\ queue = <<>>
    /\ app_active_tab # 0
    /\ active_tab = app_active_tab

====
